---- MODULE Spec2Model ----
(***************************************************************************)
(* Grid-Watcher: the packet decision engine (GridWatcher::processPacket    *)
(* and its admin surface) and the ingestion pipeline (PacketQueue,         *)
(* PacketProcessor).                                                       *)
(*                                                                         *)
(* The headers scada/mitigation_engine.hpp, scada/behavioral_analyzer.hpp, *)
(* scada/modbus_parser.hpp and performance/bloom_filter.hpp are not part   *)
(* of the source tree; the operators that stand for them follow sections   *)
(* 4.A - 4.E of the specification and are marked "spec" below.             *)
(***************************************************************************)
EXTENDS Integers, Sequences, FiniteSets, TLC

VARIABLES
    \* ---- GridWatcher ---------------------------------------------------
    config_,                \* DetectionConfig, frozen at construction
    now,                    \* the clock, in ticks
    running_,               \* GridWatcher::running_
    whitelisted_ips_cache_, \* bloom filter: set of bit positions that are set
    blocked_ips_cache_,     \* bloom filter: set of bit positions that are set
    whitelist,              \* mitigation engine: authoritative whitelist
    blocked_ips,            \* mitigation engine: address -> block record
    source_state,           \* analyzer: address -> sliding window counters
    stats_,                 \* monitor::Statistics counters
    last,                   \* the last call of the public surface and what it returned
    admin_calls,            \* number of admin calls made so far
    \* ---- PacketQueue / PacketProcessor ---------------------------------
    slots_,                 \* PacketQueue::slots_: index -> [sequence, job]
    enqueue_pos_,           \* PacketQueue::enqueue_pos_
    dequeue_pos_,           \* PacketQueue::dequeue_pos_
    prunning_,              \* PacketProcessor::running_
    pstats,                 \* PacketProcessor counters
    producers,              \* producer thread -> its position inside submitPacket
    workers,                \* worker thread -> its position inside workerThread
    stopper,                \* the thread calling start()/stop()
    qlog,                   \* observations on the queue
    \* ---- a call observed while every other thread is paused -------------
    solo,                   \* [who, steps, spurious]
    \* ---- monitor::Logger and the threads of the engine ------------------
    logger_,                \* Logger: running_, log_queue_, writer thread, counters, sink
    ctl,                    \* the thread calling start() / stop(): where it stands
    bg,                     \* cleanup_thread_ and monitor_thread_
    snap,                   \* a thread inside Statistics::getSnapshot
    \* ---- web::GridWatcherAPI ------------------------------------------
    api,                    \* the last call of the textual admin surface
    \* ---- BatchPacketProcessor -----------------------------------------
    batch_queue_,           \* the ring of batches, oldest first
    brunning_,              \* BatchPacketProcessor::running_
    bworkers,               \* worker thread -> its position inside batchWorker
    bctl,                   \* the thread that owns the processor and submits
    blog,                   \* the jobs handed to processPacket, in order
    \* ---- capture::LatencyTracker --------------------------------------
    latency_,               \* total_samples_, total_latency_ns_, min, max, histogram_
    recorders,              \* thread -> its position inside LatencyTracker::record
    \* ---- capture::ThroughputTracker -----------------------------------
    windows_,               \* the slot of the current second: packets, bytes, timestamp_sec
    clock_sec,              \* system_clock, in seconds
    counters,               \* thread -> its position inside ThroughputTracker::record
    \* ---- threads inside one call, one atomic access per step ------------
    adders,                 \* thread -> its position inside BloomFilter::add
    callers,                \* thread -> its position inside GridWatcher::processPacket
    reader                  \* a thread inside LatencyTracker::getStats

engineVars == <<config_, now, running_, whitelisted_ips_cache_, blocked_ips_cache_,
                whitelist, blocked_ips, source_state, stats_, last, admin_calls>>
pipeVars == <<slots_, enqueue_pos_, dequeue_pos_, prunning_, pstats, producers,
              workers, stopper, qlog>>
lifeVars == <<logger_, ctl, bg, snap>>
batchVars == <<batch_queue_, brunning_, bworkers, bctl, blog>>
latencyVars == <<latency_, recorders>>
throughputVars == <<windows_, clock_sec, counters>>
stepVars == <<adders, callers, reader>>
sideVars == <<api, batchVars, latencyVars, throughputVars, stepVars>>
otherVars == <<solo, lifeVars, sideVars>>
vars == <<engineVars, pipeVars, otherVars>>

(***************************************************************************)
(* Bounds of the model.                                                    *)
(***************************************************************************)
NumAddrs == 3          \* source addresses 1..NumAddrs
MaxTime == 3           \* the clock stops here
MaxPackets == 4        \* processPacket calls in one behaviour
MaxAdmin == 2          \* admin calls (block, unblock, whitelist) in one behaviour
BloomBits == 8         \* bits of a bloom filter (8192 in the program)
DosThreshold == 2      \* config: dos_packet_threshold
DosWindow == 2         \* config: dos_window, in ticks
BlockDuration == 1     \* config: auto_block_duration, in ticks
ExceptionThreshold == 2 \* config: exception_rate_threshold
MaxBlocks == 2         \* config: max_concurrent_blocks

BloomHashes == 3
ModbusPort == 502
PortScanThreshold == 10
DosByteThreshold == 10000000
MinModbusLen == 12

Addrs == 1..NumAddrs

Max(a, b) == IF a >= b THEN a ELSE b
Min(a, b) == IF a <= b THEN a ELSE b

(***************************************************************************)
(* 4.A  Address cache (spec): BloomHashes positions derived from one hash  *)
(* by rotation; add sets the bits, contains tests them; nothing removes.   *)
(***************************************************************************)
HashWord == 64   \* the hash is HashWord-valued in the model (2^64 in the program)

Hash(x) == (x * 5 + 7) % HashWord

\* rotate the 6-bit word h left by r bits
RotL(h, r) == ((h * (2 ^ r)) % HashWord) + (h \div (2 ^ (6 - r)))

BloomPositions(x) == { RotL(Hash(x), 2 * i) % BloomBits : i \in 0..(BloomHashes - 1) }

BloomAdd(bits, x) == bits \cup BloomPositions(x)

BloomContains(bits, x) == BloomPositions(x) \subseteq bits

(***************************************************************************)
(* 4.C  Modbus/TCP parser (spec).  A buffer is a sequence of bytes.  The   *)
(* literal buffers the model submits:                                      *)
(*   ReadPkt   well-formed read holding registers (fc 3, addr 100, cnt 10) *)
(*   DiagPkt   well-formed diagnostics request (fc 8)                      *)
(*   ExcPkt    well-formed exception response (fc 0x83)                    *)
(*   ShortPkt  a 5-byte buffer                                             *)
(***************************************************************************)
ReadPkt == <<0, 1, 0, 0, 0, 6, 1, 3, 0, 100, 0, 10>>
DiagPkt == <<0, 2, 0, 0, 0, 6, 1, 8, 0, 0, 0, 0>>
ExcPkt == <<0, 3, 0, 0, 0, 6, 1, 131, 2, 0, 0, 0>>
ShortPkt == <<0, 4, 0, 0, 0>>
Buffers == {ReadPkt, DiagPkt, ExcPkt, ShortPkt}
OtherPort == 8080
DnpPort == 20000
ClientPort == 5000
DestPorts == {ModbusPort, OtherPort}

Be16(b, i) == b[i] * 256 + b[i + 1]

ReadCodes == {1, 2, 3, 4}
WriteCodes == {5, 6, 15, 16, 22, 23}
DiagnosticCodes == {7, 8, 11, 12, 17}

\* MBAP validation: minimum length and protocol id 0
isModbusTCP(b) == Len(b) >= MinModbusLen /\ Be16(b, 3) = 0

\* ModbusParser::parse: big-endian fields; a length field that does not match
\* the remaining byte count marks the metadata malformed
parse(b) ==
    [ protocol        |-> "MODBUS_TCP",
      packet_size     |-> Len(b),
      transaction_id  |-> Be16(b, 1),
      unit_id         |-> b[7],
      function_code   |-> b[8],
      register_address |-> Be16(b, 9),
      register_count  |-> Be16(b, 11),
      is_response     |-> b[8] >= 128,
      has_exception   |-> b[8] >= 128,
      is_malformed    |-> Be16(b, 5) # Len(b) - 6 ]

\* PacketMetadata as default-constructed, with the fields processPacket fills in
MinimalMeta(b, src, sport, dport) ==
    [ source_ip |-> src, source_port |-> sport, dest_port |-> dport,
      protocol |-> "UNKNOWN", packet_size |-> Len(b), transaction_id |-> 0,
      unit_id |-> 0, function_code |-> 0, register_address |-> 0,
      register_count |-> 0, is_response |-> FALSE, has_exception |-> FALSE,
      is_malformed |-> FALSE ]

\* GridWatcher::buildPacketMetadata
\* Variant that hands a buffer failing validation on as minimal metadata.
buildPacketMetadata_noFlag(b, src, sport, dport) ==
    LET meta == MinimalMeta(b, src, sport, dport) IN
    IF (dport = ModbusPort \/ sport = ModbusPort) /\ isModbusTCP(b)
    THEN [ parse(b) @@ meta EXCEPT !.protocol = "MODBUS_TCP" ]
    ELSE meta

buildPacketMetadata(b, src, sport, dport) ==
    LET meta == MinimalMeta(b, src, sport, dport) IN
    IF dport = ModbusPort \/ sport = ModbusPort
    THEN IF isModbusTCP(b)
         THEN [ parse(b) @@ meta EXCEPT !.protocol = "MODBUS_TCP" ]
         ELSE [ meta EXCEPT !.is_malformed = TRUE, !.protocol = "MODBUS_TCP" ]
    ELSE meta

(***************************************************************************)
(* 4.D  Per-source state (spec): two buckets per counter, bucket duration  *)
(* = dos_window.  On update, if now - bucket_start > window the buckets    *)
(* rotate.  A query is current + previous * remaining_fraction; the model  *)
(* compares window * rate, which is an integer.                            *)
(***************************************************************************)
NoSourceState ==
    [ seen |-> FALSE, bucket_start |-> 0, cur_packets |-> 0, prev_packets |-> 0,
      cur_exceptions |-> 0, prev_exceptions |-> 0 ]

Rotate(s, t, cfg) ==
    IF ~s.seen
    THEN [ NoSourceState EXCEPT !.seen = TRUE, !.bucket_start = t ]
    ELSE IF t - s.bucket_start > cfg.dos_window
         THEN [ s EXCEPT !.bucket_start = t,
                         !.prev_packets = s.cur_packets, !.cur_packets = 0,
                         !.prev_exceptions = s.cur_exceptions, !.cur_exceptions = 0 ]
         ELSE s

UpdateState(s, meta, t, cfg) ==
    LET r == Rotate(s, t, cfg) IN
    [ r EXCEPT !.cur_packets = @ + 1,
               !.cur_exceptions = @ + (IF meta.has_exception \/ meta.is_malformed
                                        THEN 1 ELSE 0) ]

\* window * (remaining fraction of the previous bucket)
Remaining(s, t, cfg) == Max(0, cfg.dos_window - (t - s.bucket_start))

\* window * packet rate
PacketRateW(s, t, cfg) ==
    IF ~s.seen THEN 0
    ELSE s.cur_packets * cfg.dos_window + s.prev_packets * Remaining(s, t, cfg)

\* window * exception count
ExceptionRateW(s, t, cfg) ==
    IF ~s.seen THEN 0
    ELSE s.cur_exceptions * cfg.dos_window + s.prev_exceptions * Remaining(s, t, cfg)

(***************************************************************************)
(* 4.E  Behavioral analyzer (spec): the state update followed by the rules *)
(* in their fixed order; every rule that fires contributes one alert.      *)
(* The submitted packets carry one destination port per source and no      *)
(* write function code, so the port-scan and unauthorized-write rules and  *)
(* the byte-rate half of dos-flood cannot fire and their counters are not  *)
(* carried.                                                                *)
(***************************************************************************)
Alert(kind, sev) == [ attack_type |-> kind, severity |-> sev ]

SeverityRank(sev) ==
    CASE sev = "INFO" -> 0 [] sev = "LOW" -> 1 [] sev = "MEDIUM" -> 2
      [] sev = "HIGH" -> 3 [] sev = "CRITICAL" -> 4

Rules(s, meta, t, cfg) ==
    << [ fires |-> meta.is_malformed,
         alert |-> Alert("MALFORMED_PACKET", "HIGH") ],
       [ fires |-> PacketRateW(s, t, cfg) >= cfg.dos_packet_threshold * cfg.dos_window,
         alert |-> Alert("DOS_FLOOD", "HIGH") ],
       [ fires |-> ExceptionRateW(s, t, cfg) >= cfg.exception_rate_threshold * cfg.dos_window,
         alert |-> Alert("ABNORMAL_TRAFFIC_PATTERN", "MEDIUM") ],
       [ fires |-> /\ meta.protocol = "MODBUS_TCP"
                   /\ ~meta.is_malformed
                   /\ meta.function_code \in DiagnosticCodes
                   /\ meta.source_port # ModbusPort,
         alert |-> Alert("SUSPICIOUS_FUNCTION_CODE", "LOW") ] >>

RECURSIVE Fired(_, _)
Fired(rules, i) ==
    IF i > Len(rules) THEN <<>>
    ELSE (IF rules[i].fires THEN <<rules[i].alert>> ELSE <<>>) \o Fired(rules, i + 1)

\* BehavioralAnalyzer::analyze: [state, threats]
analyze(s, meta, t, cfg) ==
    LET u == UpdateState(s, meta, t, cfg) IN
    [ state |-> u, threats |-> Fired(Rules(u, meta, t, cfg), 1) ]

(***************************************************************************)
(* 4.B  Mitigation table (spec).  tbl maps every address to a record;      *)
(* present = FALSE stands for "no record".  Blocks made through the        *)
(* GridWatcher surface always carry a finite expiry.                       *)
(***************************************************************************)
NoBlock == [ present |-> FALSE, expires_at |-> 0 ]

\* the record exists and has not expired
isBlocked(tbl, a, t) == tbl[a].present /\ ~(t > tbl[a].expires_at)

Present(tbl) == { a \in DOMAIN tbl : tbl[a].present }

\* snapshot(): the records that are logically there
getBlockedIPs(tbl, t) == { a \in DOMAIN tbl : isBlocked(tbl, a, t) }

\* the record evicted when the table is full: earliest expiry, lowest address first
Victim(tbl) ==
    CHOOSE v \in Present(tbl) :
        \A w \in Present(tbl) :
            \/ tbl[v].expires_at < tbl[w].expires_at
            \/ (tbl[v].expires_at = tbl[w].expires_at /\ v <= w)

\* MitigationEngine::blockIP: insert or extend
blockRecord(tbl, a, duration, t, cfg) ==
    IF tbl[a].present
    THEN [ tbl EXCEPT ![a].expires_at = Max(@, t + duration) ]
    ELSE LET room == IF Cardinality(Present(tbl)) >= cfg.max_concurrent_blocks
                     THEN [ tbl EXCEPT ![Victim(tbl)] = NoBlock ]
                     ELSE tbl
         IN [ room EXCEPT ![a] = [ present |-> TRUE, expires_at |-> t + duration ] ]

\* MitigationEngine::unblockIP: [tbl, found]
unblockRecord(tbl, a) ==
    [ tbl |-> [ tbl EXCEPT ![a] = NoBlock ], found |-> tbl[a].present ]

\* MitigationEngine::cleanup: expired records are removed
cleanup(tbl, t) ==
    [ a \in DOMAIN tbl |-> IF tbl[a].present /\ t > tbl[a].expires_at
                           THEN NoBlock ELSE tbl[a] ]

\* MitigationEngine::shouldDropPacket: the rate gate of step 5, "drop if already
\* over the flood threshold", read before the state is updated
shouldDropPacket(states, meta, t, cfg) ==
    /\ cfg.auto_block_enabled
    /\ PacketRateW(states[meta.source_ip], t, cfg)
          > cfg.dos_packet_threshold * cfg.dos_window

\* MitigationEngine::mitigate, the policy of step 8: [action, tbl]
\* Variant that only logs an alert of severity MEDIUM.
mitigate_logOnMedium(tbl, threat, src, t, cfg) ==
    IF SeverityRank(threat.severity) >= SeverityRank("HIGH") /\ cfg.auto_block_enabled
    THEN [ action |-> "BLOCK_IP",
           tbl |-> blockRecord(tbl, src, cfg.auto_block_duration, t, cfg) ]
    ELSE IF SeverityRank(threat.severity) >= SeverityRank("HIGH")
         THEN [ action |-> "DROP_PACKET", tbl |-> tbl ]
         ELSE [ action |-> "LOG_ONLY", tbl |-> tbl ]

mitigate(tbl, threat, src, t, cfg) ==
    IF SeverityRank(threat.severity) >= SeverityRank("HIGH") /\ cfg.auto_block_enabled
    THEN [ action |-> "BLOCK_IP",
           tbl |-> blockRecord(tbl, src, cfg.auto_block_duration, t, cfg) ]
    ELSE IF SeverityRank(threat.severity) >= SeverityRank("MEDIUM")
         THEN [ action |-> "DROP_PACKET", tbl |-> tbl ]
         ELSE [ action |-> "LOG_ONLY", tbl |-> tbl ]

(***************************************************************************)
(* monitor::Statistics                                                     *)
(***************************************************************************)
\* Statistics::incrementTotalBlocks and decrementActiveBlocks: the only writers
\* of total_blocks_ and active_blocks_.  No operation of the engine calls them.
incrementTotalBlocks(st) ==
    [ st EXCEPT !.total_blocks = @ + 1, !.active_blocks = @ + 1 ]

decrementActiveBlocks(st) == [ st EXCEPT !.active_blocks = @ - 1 ]

incrementPacketsProcessed(st) == [ st EXCEPT !.packets_processed = @ + 1 ]

incrementPacketsAllowed(st) == [ st EXCEPT !.packets_allowed = @ + 1 ]

\* a drop that is not counted
incrementPacketsDropped_skip(st) == st

incrementPacketsDropped(st) == [ st EXCEPT !.packets_dropped = @ + 1 ]

incrementThreatsDetected(st) == [ st EXCEPT !.threats_detected = @ + 1 ]

(***************************************************************************)
(* GridWatcher::processPacket.  Decide computes what one call does to the  *)
(* engine: the decision, the path taken and the new state of every         *)
(* component the call touches.                                             *)
(***************************************************************************)
\* a fast path that never hits
WhitelistFastPath_off(wcache, src) == FALSE

\* a fast path whose double-check ignores the expiry instant
BlockedFastPath_anyRecord(bcache, tbl, src, t) ==
    BloomContains(bcache, src) /\ tbl[src].present

\* a fast path that trusts the bloom filter alone
BlockedFastPath_bloomOnly(bcache, tbl, src, t) == BloomContains(bcache, src)

\* FAST PATH 1: the whitelist bloom filter alone
WhitelistFastPath(wcache, src) == BloomContains(wcache, src)

\* FAST PATH 2: the blocked bloom filter, double-checked with the table
BlockedFastPath(bcache, tbl, src, t) ==
    BloomContains(bcache, src) /\ isBlocked(tbl, src, t)

\* the loop over the threats: each one is counted, logged and mitigated
\* Variant of the loop that leaves it at the first alert that drops or blocks.
RECURSIVE ProcessThreats_stopAtDrop(_, _, _, _, _)
ProcessThreats_stopAtDrop(threats, i, acc, t, cfg) ==
    IF i > Len(threats) \/ acc.should_drop THEN acc
    ELSE LET m == mitigate(acc.tbl, threats[i], acc.src, t, cfg) IN
         ProcessThreats_stopAtDrop(threats, i + 1,
            [ acc EXCEPT
                !.st = incrementThreatsDetected(@),
                !.logged = Append(@, threats[i].attack_type),
                !.actions = Append(@, m.action),
                !.tbl = m.tbl,
                !.bcache = IF m.action = "BLOCK_IP" THEN BloomAdd(@, acc.src) ELSE @,
                !.should_drop = @ \/ m.action \in {"DROP_PACKET", "BLOCK_IP"} ],
            t, cfg)

RECURSIVE ProcessThreats(_, _, _, _, _)
ProcessThreats(threats, i, acc, t, cfg) ==
    IF i > Len(threats) THEN acc
    ELSE LET m == mitigate(acc.tbl, threats[i], acc.src, t, cfg) IN
         ProcessThreats(threats, i + 1,
            [ acc EXCEPT
                !.st = incrementThreatsDetected(@),
                !.logged = Append(@, threats[i].attack_type),
                !.actions = Append(@, m.action),
                !.tbl = m.tbl,
                !.bcache = IF m.action = "BLOCK_IP" THEN BloomAdd(@, acc.src) ELSE @,
                !.should_drop = @ \/ m.action \in {"DROP_PACKET", "BLOCK_IP"} ],
            t, cfg)

Decide(b, src, sport, dport, e) ==
    LET st0  == incrementPacketsProcessed(e.st)
        same == [ result |-> TRUE, path |-> "none", st |-> st0, tbl |-> e.tbl,
                  bcache |-> e.bcache, states |-> e.states, logged |-> <<>>,
                  actions |-> <<>>, parsed |-> FALSE ]
    IN
    IF WhitelistFastPath(e.wcache, src)
    THEN [ same EXCEPT !.result = TRUE, !.path = "whitelist",
                       !.st = incrementPacketsAllowed(st0) ]
    ELSE IF BlockedFastPath(e.bcache, e.tbl, src, e.now)
    THEN [ same EXCEPT !.result = FALSE, !.path = "blocked",
                       !.st = incrementPacketsDropped(st0) ]
    ELSE
    LET meta == buildPacketMetadata(b, src, sport, dport) IN
    IF shouldDropPacket(e.states, meta, e.now, e.cfg)
    THEN [ same EXCEPT !.result = FALSE, !.path = "ratecheck", !.parsed = TRUE,
                       !.st = incrementPacketsDropped(st0) ]
    ELSE
    LET an  == analyze(e.states[src], meta, e.now, e.cfg)
        acc == ProcessThreats(an.threats, 1,
                  [ src |-> src, st |-> st0, tbl |-> e.tbl, bcache |-> e.bcache,
                    logged |-> <<>>, actions |-> <<>>, should_drop |-> FALSE ],
                  e.now, e.cfg)
    IN [ result |-> ~acc.should_drop,
         path   |-> "analysis",
         st     |-> IF acc.should_drop THEN incrementPacketsDropped(acc.st)
                                       ELSE incrementPacketsAllowed(acc.st),
         tbl    |-> acc.tbl,
         bcache |-> acc.bcache,
         states |-> [ e.states EXCEPT ![src] = an.state ],
         logged |-> acc.logged,
         actions |-> acc.actions,
         parsed |-> TRUE ]

\* the engine as Decide reads it
Engine ==
    [ cfg |-> config_, now |-> now, wcache |-> whitelisted_ips_cache_,
      bcache |-> blocked_ips_cache_, tbl |-> blocked_ips, states |-> source_state,
      st |-> stats_ ]

(***************************************************************************)
(* Construction.  DetectionConfig is frozen in config_; the constructor    *)
(* adds every configured whitelist address to the whitelist bloom filter.  *)
(* Address 1 is the configured operator station; the admin may whitelist   *)
(* address 3 at run time; address 2 is never whitelisted.                  *)
(***************************************************************************)
ConfigWhitelist == {1}
WhitelistInputs == {3}
BlockInputs == {2}

Configs ==
    { [ dos_packet_threshold |-> DosThreshold, dos_window |-> DosWindow,
        exception_rate_threshold |-> ExceptionThreshold,
        whitelisted_ips |-> ConfigWhitelist, auto_block_enabled |-> ab,
        auto_block_duration |-> BlockDuration,
        max_concurrent_blocks |-> MaxBlocks,
        port_scan_threshold |-> PortScanThreshold,
        dos_byte_threshold |-> DosByteThreshold,
        monitored_ports |-> {ModbusPort, DnpPort} ]
      : ab \in BOOLEAN }

\* DetectionConfig::isValid
isValid(cfg) ==
    /\ cfg.dos_packet_threshold > 0
    /\ cfg.dos_byte_threshold > 0
    /\ cfg.port_scan_threshold > 0
    /\ cfg.max_concurrent_blocks > 0

\* configurations with one of the validated fields at zero
InvalidConfigs ==
    { [ c EXCEPT !.dos_packet_threshold = 0 ] : c \in Configs } \cup
    { [ c EXCEPT !.port_scan_threshold = 0 ] : c \in Configs }

RECURSIVE BloomAddAll(_, _)
BloomAddAll(bits, xs) ==
    IF xs = {} THEN bits
    ELSE LET x == CHOOSE y \in xs : TRUE IN BloomAddAll(BloomAdd(bits, x), xs \ {x})

\* GridWatcher::GridWatcher: the loop over config_.whitelisted_ips
ConstructWhitelistCache(cfg) == BloomAddAll({}, cfg.whitelisted_ips)

\* last: op and src name the call; for processPacket, result is the decision,
\* path the branch that returned, logged the alerts handed to the logger,
\* burst the number of consecutive processPacket calls of src at this instant,
\* after_unblock whether the call directly followed unblockIP(src)
NoCall ==
    [ op |-> "none", src |-> 0, result |-> TRUE, path |-> "none", logged |-> <<>>,
      burst |-> 0, after_unblock |-> FALSE ]

EngineInit(cfgs) ==
    /\ config_ \in cfgs
    /\ now = 0
    /\ running_ = FALSE
    /\ whitelisted_ips_cache_ = ConstructWhitelistCache(config_)
    /\ blocked_ips_cache_ = {}
    /\ whitelist = config_.whitelisted_ips
    /\ blocked_ips = [ a \in Addrs |-> NoBlock ]
    /\ source_state = [ a \in Addrs |-> NoSourceState ]
    /\ stats_ = [ packets_processed |-> 0, packets_allowed |-> 0,
                  packets_dropped |-> 0, threats_detected |-> 0,
                  total_blocks |-> 0, active_blocks |-> 0 ]
    /\ last = NoCall
    /\ admin_calls = 0

(***************************************************************************)
(* The public surface of GridWatcher, one action per call.                 *)
(***************************************************************************)
processPacket(b, src, sport, dport) ==
    /\ LET d == Decide(b, src, sport, dport, Engine) IN
       /\ stats_' = d.st
       /\ blocked_ips' = d.tbl
       /\ blocked_ips_cache_' = d.bcache
       /\ source_state' = d.states
       /\ last' = [ op |-> "processPacket", src |-> src, result |-> d.result,
                    path |-> d.path, logged |-> d.logged,
                    burst |-> IF last.op = "processPacket" /\ last.src = src
                              THEN last.burst + 1 ELSE 1,
                    after_unblock |-> last.op = "unblockIP" /\ last.src = src ]
    /\ UNCHANGED <<config_, now, running_, whitelisted_ips_cache_, whitelist,
                   admin_calls>>

blockIP(a) ==
    /\ admin_calls < MaxAdmin
    /\ blocked_ips' = blockRecord(blocked_ips, a, config_.auto_block_duration, now, config_)
    /\ blocked_ips_cache_' = BloomAdd(blocked_ips_cache_, a)
    /\ last' = NoCall
    /\ admin_calls' = admin_calls + 1
    /\ UNCHANGED <<config_, now, running_, whitelisted_ips_cache_, whitelist,
                   source_state, stats_>>

unblockIP(a) ==
    /\ admin_calls < MaxAdmin
    /\ blocked_ips' = unblockRecord(blocked_ips, a).tbl
    /\ last' = [ NoCall EXCEPT !.op = "unblockIP", !.src = a ]
    /\ admin_calls' = admin_calls + 1
    /\ UNCHANGED <<config_, now, running_, whitelisted_ips_cache_, blocked_ips_cache_,
                   whitelist, source_state, stats_>>

addWhitelist(a) ==
    /\ admin_calls < MaxAdmin
    /\ whitelist' = whitelist \cup {a}
    /\ whitelisted_ips_cache_' = BloomAdd(whitelisted_ips_cache_, a)
    /\ last' = NoCall
    /\ admin_calls' = admin_calls + 1
    /\ UNCHANGED <<config_, now, running_, blocked_ips_cache_, blocked_ips,
                   source_state, stats_>>

removeWhitelist(a) ==
    /\ admin_calls < MaxAdmin
    /\ whitelist' = whitelist \ {a}
    /\ last' = [ NoCall EXCEPT !.op = "removeWhitelist", !.src = a ]
    /\ admin_calls' = admin_calls + 1
    /\ UNCHANGED <<config_, now, running_, whitelisted_ips_cache_, blocked_ips_cache_,
                   blocked_ips, source_state, stats_>>

\* GridWatcher::start: a second start only logs a warning
start ==
    /\ running_' = TRUE
    /\ last' = NoCall
    /\ UNCHANGED <<config_, now, whitelisted_ips_cache_, blocked_ips_cache_, whitelist,
                   blocked_ips, source_state, stats_, admin_calls>>

\* GridWatcher::stop
stop ==
    /\ running_' = FALSE
    /\ last' = NoCall
    /\ UNCHANGED <<config_, now, whitelisted_ips_cache_, blocked_ips_cache_, whitelist,
                   blocked_ips, source_state, stats_, admin_calls>>

\* GridWatcher::cleanupLoop, one round: mitigation_.cleanup()
cleanupLoop ==
    /\ running_
    /\ blocked_ips' = cleanup(blocked_ips, now)
    /\ last' = NoCall
    /\ UNCHANGED <<config_, now, running_, whitelisted_ips_cache_, blocked_ips_cache_,
                   whitelist, source_state, stats_, admin_calls>>

\* the clock advances
Tick ==
    /\ now < MaxTime
    /\ now' = now + 1
    /\ last' = NoCall
    /\ UNCHANGED <<config_, running_, whitelisted_ips_cache_, blocked_ips_cache_,
                   whitelist, blocked_ips, source_state, stats_, admin_calls>>

(***************************************************************************)
(* monitor::Logger.  The ring log_queue_ (performance/lock_free_queue.hpp   *)
(* is not part of the source tree) follows 4.H of the specification: push  *)
(* fails when the ring is full, pop takes the oldest record.  A record is  *)
(* named by its level.                                                     *)
(***************************************************************************)
LogCapacity == 2       \* records the ring holds (8192 in the program)
MaxLogs == 4           \* Logger::log calls in one behaviour
MaxCalls == 4          \* start() / stop() calls in one behaviour

DEBUG == 1
INFO == 2
WARNING == 3
CRITICAL == 5

\* Logger::min_level_ as the engine constructs its logger
MinLevel == INFO

push(ring, entry) == IF Len(ring) < LogCapacity THEN Append(ring, entry) ELSE ring

\* Logger::log that forgets the drop counter
log_noDropCount(lg, level) ==
    IF level < MinLevel
    THEN [ lg EXCEPT !.attempts = @ + 1 ]
    ELSE [ lg EXCEPT !.ring = push(@, level), !.attempts = @ + 1, !.calls = @ + 1 ]

\* Logger::log: below min_level_ nothing happens; a full ring counts a drop.
\* attempts counts the calls, calls those at or above min_level_
log(lg, level) ==
    IF level < MinLevel
    THEN [ lg EXCEPT !.attempts = @ + 1 ]
    ELSE IF Len(lg.ring) < LogCapacity
         THEN [ lg EXCEPT !.ring = push(@, level), !.attempts = @ + 1, !.calls = @ + 1 ]
         ELSE [ lg EXCEPT !.logs_dropped = @ + 1, !.attempts = @ + 1, !.calls = @ + 1 ]

\* Logger::writeLog: the record goes to the file if it is open (a write to a
\* closed std::ofstream fails silently); logs_written_ is raised either way
writeLog(lg) ==
    [ lg EXCEPT !.logs_written = @ + 1,
                !.sunk = IF lg.sink = "open" THEN @ + 1 ELSE @ ]

\* Logger::Logger: the file is open, nothing runs
NewLogger ==
    [ running |-> FALSE, ring |-> <<>>, writer |-> "none", logs_written |-> 0,
      logs_dropped |-> 0, sink |-> "open", sunk |-> 0, attempts |-> 0, calls |-> 0 ]

\* Logger::start
Logger_start(lg) ==
    IF lg.running THEN lg ELSE [ lg EXCEPT !.running = TRUE, !.writer = "loop" ]

\* records accepted into the ring so far
Accepted(lg) == lg.calls - lg.logs_dropped

IdleCtl == [ pc |-> "idle", op |-> "none", calls |-> 0, at_call |-> 0, noop |-> FALSE ]

\* the thread enters call op: at_call is the number of records accepted so far
Enter(op, noop) ==
    [ ctl EXCEPT !.op = op, !.calls = @ + 1, !.at_call = Accepted(logger_),
                 !.noop = noop ]

\* writerLoop: while (running_) if (log_queue_.pop(entry)); an empty ring means
\* sleep_for and leaves the state as it is
writer_pop ==
    /\ logger_.writer = "loop"
    /\ logger_.running
    /\ logger_.ring # <<>>
    /\ logger_' = [ logger_ EXCEPT !.ring = Tail(@), !.writer = "write" ]

\* writerLoop: writeLog(entry)
writer_write ==
    /\ logger_.writer = "write"
    /\ logger_' = [ writeLog(logger_) EXCEPT !.writer = "loop" ]

\* writerLoop: running_ is false, the thread function returns
writer_exit ==
    /\ logger_.writer = "loop"
    /\ ~logger_.running
    /\ logger_' = [ logger_ EXCEPT !.writer = "exited" ]

\* Logger::stop: running_.exchange(false); nothing else if it was false
Logger_stop_exchange ==
    /\ ctl.pc = "logger_stop"
    /\ IF logger_.running
       THEN /\ logger_' = [ logger_ EXCEPT !.running = FALSE ]
            /\ ctl' = [ ctl EXCEPT !.pc = "logger_join" ]
       ELSE /\ ctl' = [ ctl EXCEPT !.pc = "idle" ]
            /\ UNCHANGED logger_

\* Logger::stop: writer_thread_.join()
Logger_stop_join ==
    /\ ctl.pc = "logger_join"
    /\ logger_.writer = "exited"
    /\ logger_' = [ logger_ EXCEPT !.writer = "none" ]
    /\ ctl' = [ ctl EXCEPT !.pc = "logger_flush" ]

\* Logger::stop: while (log_queue_.pop(entry)) writeLog(entry)
Logger_stop_flush ==
    /\ ctl.pc = "logger_flush"
    /\ logger_.ring # <<>>
    /\ logger_' = writeLog([ logger_ EXCEPT !.ring = Tail(@) ])
    /\ UNCHANGED ctl

\* Logger::stop: the ring is empty; log_file_.close(); return
Logger_stop_close ==
    /\ ctl.pc = "logger_flush"
    /\ logger_.ring = <<>>
    /\ logger_' = [ logger_ EXCEPT !.sink = "closed" ]
    /\ ctl' = [ ctl EXCEPT !.pc = "idle" ]

(***************************************************************************)
(* PacketQueue<Capacity>: a bounded queue of slots with sequence numbers.  *)
(* A job is named by its id; NoJob is an empty or moved-from PacketJob.    *)
(***************************************************************************)
Capacity == 2          \* slots of the queue (32768 in the program)
NumProducers == 2      \* threads calling submitPacket
NumWorkers == 2        \* num_threads_
MaxSubmit == 2         \* submitPacket calls of producer 1; every other producer makes one

Producers == 1..NumProducers
Workers == 1..NumWorkers
NoJob == 0

\* the calls producer p makes, the id of its k-th job, the producer of job j
JobsOf(p) == IF p = 1 THEN MaxSubmit ELSE 1
JobId(p, k) == IF p = 1 THEN k ELSE MaxSubmit + p - 1
Owner(j) == IF j <= MaxSubmit THEN 1 ELSE j - MaxSubmit + 1
TotalJobs == MaxSubmit + NumProducers - 1
JobSource == 2         \* source address of the submitted packets

\* PacketQueue::PacketQueue
NewQueue == [ i \in 0..(Capacity - 1) |-> [ sequence |-> i, job |-> NoJob ] ]

SlotOf(pos) == pos % Capacity

\* enqueue that never sees a full queue
EnqueueDiff_noCheck(seq, pos) == 0

\* enqueue: diff = seq - pos
\* an enqueue that takes a full queue for a stale position and tries again
EnqueueDiff_retryWhenFull(seq, pos) == IF seq - pos < 0 THEN 1 ELSE seq - pos

EnqueueDiff(seq, pos) == seq - pos

\* a dequeue that never sees an empty queue
DequeueDiff_noCheck(seq, pos) == 0

\* dequeue: diff = seq - (pos + 1)
DequeueDiff(seq, pos) == seq - (pos + 1)

\* enqueue: slot.sequence.store(pos + 1)
EnqueuePublish(pos) == pos + 1

\* dequeue: slot.sequence.store(pos + Capacity)
DequeueRelease(pos) == pos + Capacity

\* a queue-full drop that is not counted
incDroppedQueueFull_skip(ps) == ps

incQueued(ps) == [ ps EXCEPT !.packets_queued = @ + 1 ]
incDroppedQueueFull(ps) == [ ps EXCEPT !.packets_dropped_queue_full = @ + 1 ]
incProcessed(ps) == [ ps EXCEPT !.packets_processed = @ + 1 ]

IdleProducer == [ pc |-> "idle", pos |-> 0, job |-> NoJob, sent |-> 0 ]
OffWorker == [ pc |-> "off", pos |-> 0, job |-> NoJob, allowed |-> TRUE,
               processed |-> FALSE, ret |-> TRUE ]

\* PacketProcessor::PacketProcessor
PipeInit ==
    /\ slots_ = NewQueue
    /\ enqueue_pos_ = 0
    /\ dequeue_pos_ = 0
    /\ prunning_ = FALSE
    /\ pstats = [ packets_queued |-> 0, packets_processed |-> 0,
                  packets_dropped_queue_full |-> 0 ]
    /\ producers = [ p \in Producers |-> IdleProducer ]
    /\ workers = [ w \in Workers |-> OffWorker ]
    /\ stopper = [ pc |-> "idle", stopped |-> FALSE, queued_at_stop |-> 0 ]
    /\ qlog = [ submitted |-> 0, claimed |-> <<>>, taken |-> {}, accepted |-> 0,
                rejected |-> 0, decided |-> {} ]

(***************************************************************************)
(* PacketProcessor::submitPacket with PacketQueue::enqueue inlined, one    *)
(* action per atomic access.                                               *)
(***************************************************************************)
\* submitPacket builds the job; enqueue: pos = enqueue_pos_.load()
submitPacket(p) ==
    /\ producers[p].pc = "idle"
    /\ producers[p].sent < JobsOf(p)
    /\ producers' = [ producers EXCEPT ![p] =
          [ pc |-> "enq_seq", pos |-> enqueue_pos_,
            job |-> JobId(p, producers[p].sent + 1), sent |-> @.sent + 1 ] ]
    /\ qlog' = [ qlog EXCEPT !.submitted = @ + 1 ]
    /\ UNCHANGED <<slots_, enqueue_pos_, dequeue_pos_, prunning_, pstats, workers,
                   stopper>>

\* enqueue: seq = slot.sequence.load(); the three branches on diff
enqueue_seq(p) ==
    /\ producers[p].pc = "enq_seq"
    /\ LET diff == EnqueueDiff(slots_[SlotOf(producers[p].pos)].sequence,
                               producers[p].pos)
       IN producers' = [ producers EXCEPT ![p].pc =
             IF diff = 0 THEN "enq_cas"
             ELSE IF diff < 0 THEN "count_full"
             ELSE "enq_reload",
                                         ![p].pos = IF diff < 0 THEN 0 ELSE @ ]
    /\ UNCHANGED <<slots_, enqueue_pos_, dequeue_pos_, prunning_, pstats, workers,
                   stopper, qlog>>

\* enqueue: pos = enqueue_pos_.load() after diff > 0
enqueue_reload(p) ==
    /\ producers[p].pc = "enq_reload"
    /\ producers' = [ producers EXCEPT ![p].pc = "enq_seq", ![p].pos = enqueue_pos_ ]
    /\ UNCHANGED <<slots_, enqueue_pos_, dequeue_pos_, prunning_, pstats, workers,
                   stopper, qlog>>

\* enqueue: enqueue_pos_.compare_exchange_weak(pos, pos + 1); a weak exchange
\* may fail although the value matches; on failure pos receives the value read
enqueue_cas(p) ==
    /\ producers[p].pc = "enq_cas"
    /\ \/ /\ enqueue_pos_ = producers[p].pos
          /\ enqueue_pos_' = enqueue_pos_ + 1
          /\ producers' = [ producers EXCEPT ![p].pc = "enq_move" ]
          /\ qlog' = [ qlog EXCEPT !.claimed = Append(@, producers[p].job) ]
       \/ /\ producers' = [ producers EXCEPT ![p].pc = "enq_seq",
                                             ![p].pos = enqueue_pos_ ]
          /\ UNCHANGED <<enqueue_pos_, qlog>>
    /\ UNCHANGED <<slots_, dequeue_pos_, prunning_, pstats, workers, stopper>>

\* enqueue: slot.job = std::move(job)
enqueue_move(p) ==
    /\ producers[p].pc = "enq_move"
    /\ slots_' = [ slots_ EXCEPT ![SlotOf(producers[p].pos)].job = producers[p].job ]
    /\ producers' = [ producers EXCEPT ![p].pc = "enq_store" ]
    /\ UNCHANGED <<enqueue_pos_, dequeue_pos_, prunning_, pstats, workers, stopper,
                   qlog>>

\* enqueue: slot.sequence.store(pos + 1); return true
enqueue_store(p) ==
    /\ producers[p].pc = "enq_store"
    /\ slots_' = [ slots_ EXCEPT ![SlotOf(producers[p].pos)].sequence =
                      EnqueuePublish(producers[p].pos) ]
    /\ producers' = [ producers EXCEPT ![p].pc = "count_queued", ![p].pos = 0 ]
    /\ UNCHANGED <<enqueue_pos_, dequeue_pos_, prunning_, pstats, workers, stopper,
                   qlog>>

\* submitPacket: packets_queued_.fetch_add(1); return true
submit_queued(p) ==
    /\ producers[p].pc = "count_queued"
    /\ pstats' = incQueued(pstats)
    /\ producers' = [ producers EXCEPT ![p].pc = "idle", ![p].job = NoJob ]
    /\ qlog' = [ qlog EXCEPT !.accepted = @ + 1 ]
    /\ UNCHANGED <<slots_, enqueue_pos_, dequeue_pos_, prunning_, workers, stopper>>

\* submitPacket: packets_dropped_queue_full_.fetch_add(1); return false
submit_full(p) ==
    /\ producers[p].pc = "count_full"
    /\ pstats' = incDroppedQueueFull(pstats)
    /\ producers' = [ producers EXCEPT ![p].pc = "idle", ![p].job = NoJob ]
    /\ qlog' = [ qlog EXCEPT !.rejected = @ + 1 ]
    /\ UNCHANGED <<slots_, enqueue_pos_, dequeue_pos_, prunning_, workers, stopper>>

(***************************************************************************)
(* PacketProcessor::workerThread with PacketQueue::dequeue inlined.        *)
(***************************************************************************)
\* worker_loop without the test of running_
worker_loop_noCheck(w) ==
    /\ workers[w].pc = "loop"
    /\ workers' = [ workers EXCEPT ![w] = [ @ EXCEPT !.pc = "deq_seq",
                                                     !.pos = dequeue_pos_ ] ]
    /\ UNCHANGED <<slots_, enqueue_pos_, dequeue_pos_, prunning_, pstats, producers,
                   stopper, qlog>>

\* while (running_.load()): enter dequeue with pos = dequeue_pos_.load(), or
\* return, which ends the lifetime of the worker's job object
worker_loop(w) ==
    /\ workers[w].pc = "loop"
    /\ workers' = [ workers EXCEPT ![w] =
          IF prunning_ THEN [ @ EXCEPT !.pc = "deq_seq", !.pos = dequeue_pos_ ]
                       ELSE [ OffWorker EXCEPT !.pc = "exit" ] ]
    /\ UNCHANGED <<slots_, enqueue_pos_, dequeue_pos_, prunning_, pstats, producers,
                   stopper, qlog>>

\* dequeue: seq = slot.sequence.load(); diff < 0 returns false and the worker yields
dequeue_seq(w) ==
    /\ workers[w].pc = "deq_seq"
    /\ LET diff == DequeueDiff(slots_[SlotOf(workers[w].pos)].sequence, workers[w].pos)
       IN workers' = [ workers EXCEPT ![w].pc =
             IF diff = 0 THEN "deq_cas"
             ELSE IF diff < 0 THEN "loop"
             ELSE "deq_reload",
                                     ![w].pos = IF diff < 0 THEN 0 ELSE @ ]
    /\ UNCHANGED <<slots_, enqueue_pos_, dequeue_pos_, prunning_, pstats, producers,
                   stopper, qlog>>

\* dequeue: pos = dequeue_pos_.load() after diff > 0
dequeue_reload(w) ==
    /\ workers[w].pc = "deq_reload"
    /\ workers' = [ workers EXCEPT ![w].pc = "deq_seq", ![w].pos = dequeue_pos_ ]
    /\ UNCHANGED <<slots_, enqueue_pos_, dequeue_pos_, prunning_, pstats, producers,
                   stopper, qlog>>

\* dequeue: dequeue_pos_.compare_exchange_weak(pos, pos + 1)
dequeue_cas(w) ==
    /\ workers[w].pc = "deq_cas"
    /\ \/ /\ dequeue_pos_ = workers[w].pos
          /\ dequeue_pos_' = dequeue_pos_ + 1
          /\ workers' = [ workers EXCEPT ![w].pc = "deq_move" ]
       \/ /\ workers' = [ workers EXCEPT ![w].pc = "deq_seq", ![w].pos = dequeue_pos_ ]
          /\ UNCHANGED dequeue_pos_
    /\ UNCHANGED <<slots_, enqueue_pos_, prunning_, pstats, producers, stopper, qlog>>

\* dequeue: job = std::move(slot.job); the flags of the received job were not set
dequeue_move(w) ==
    /\ workers[w].pc = "deq_move"
    /\ LET i == SlotOf(workers[w].pos) IN
       /\ workers' = [ workers EXCEPT ![w].pc = "deq_store", ![w].job = slots_[i].job,
                                      ![w].allowed = TRUE, ![w].processed = FALSE ]
       /\ slots_' = [ slots_ EXCEPT ![i].job = NoJob ]
       /\ qlog' = [ qlog EXCEPT !.taken = @ \cup { <<workers[w].pos, slots_[i].job>> } ]
    /\ UNCHANGED <<enqueue_pos_, dequeue_pos_, prunning_, pstats, producers, stopper>>

\* dequeue: slot.sequence.store(pos + Capacity); return true
dequeue_store(w) ==
    /\ workers[w].pc = "deq_store"
    /\ slots_' = [ slots_ EXCEPT ![SlotOf(workers[w].pos)].sequence =
                      DequeueRelease(workers[w].pos) ]
    /\ workers' = [ workers EXCEPT ![w].pc = "process", ![w].pos = 0 ]
    /\ UNCHANGED <<enqueue_pos_, dequeue_pos_, prunning_, pstats, producers, stopper,
                   qlog>>

\* bool allowed = watcher_.processPacket(job...)
worker_process(w) ==
    /\ workers[w].pc = "process"
    /\ processPacket(ReadPkt, JobSource, ClientPort, ModbusPort)
    /\ workers' = [ workers EXCEPT ![w].pc = "store_allowed", ![w].ret = last'.result ]
    /\ UNCHANGED <<slots_, enqueue_pos_, dequeue_pos_, prunning_, pstats, producers,
                   stopper, qlog>>

\* job.allowed.store(allowed): job is the worker's own PacketJob object
worker_store_allowed(w) ==
    /\ workers[w].pc = "store_allowed"
    /\ workers' = [ workers EXCEPT ![w].pc = "store_processed",
                                   ![w].allowed = workers[w].ret ]
    /\ UNCHANGED <<slots_, enqueue_pos_, dequeue_pos_, prunning_, pstats, producers,
                   stopper, qlog>>

\* job.processed.store(true); decided records the job and what processPacket
\* returned for it
worker_store_processed(w) ==
    /\ workers[w].pc = "store_processed"
    /\ workers' = [ workers EXCEPT ![w].pc = "count", ![w].processed = TRUE,
                                   ![w].ret = TRUE ]
    /\ qlog' = [ qlog EXCEPT !.decided = @ \cup { <<workers[w].job, workers[w].ret>> } ]
    /\ UNCHANGED <<slots_, enqueue_pos_, dequeue_pos_, prunning_, pstats, producers,
                   stopper>>

\* packets_processed_.fetch_add(1); the job object stays as it is until the next
\* dequeue moves another job into it
worker_count(w) ==
    /\ workers[w].pc = "count"
    /\ pstats' = incProcessed(pstats)
    /\ workers' = [ workers EXCEPT ![w].pc = "loop" ]
    /\ UNCHANGED <<slots_, enqueue_pos_, dequeue_pos_, prunning_, producers, stopper,
                   qlog>>

(***************************************************************************)
(* PacketProcessor::start and PacketProcessor::stop, called by one thread. *)
(***************************************************************************)
\* start: running_.exchange(true); the worker threads are created
pstart ==
    /\ stopper.pc = "idle"
    /\ ~stopper.stopped
    /\ ~prunning_
    /\ prunning_' = TRUE
    /\ workers' = [ w \in Workers |-> [ OffWorker EXCEPT !.pc = "loop" ] ]
    /\ UNCHANGED stopper
    /\ UNCHANGED <<slots_, enqueue_pos_, dequeue_pos_, pstats, producers, qlog>>

\* stop: running_.exchange(false), then the joins begin
pstop ==
    /\ stopper.pc = "idle"
    /\ prunning_
    /\ prunning_' = FALSE
    /\ stopper' = [ stopper EXCEPT !.pc = "joining",
                                   !.queued_at_stop = pstats.packets_queued ]
    /\ UNCHANGED <<slots_, enqueue_pos_, dequeue_pos_, pstats, producers, workers, qlog>>

\* stop: every worker.join() has returned; workers_.clear(); return
pstop_joined ==
    /\ stopper.pc = "joining"
    /\ \A w \in Workers : workers[w].pc = "exit"
    /\ workers' = [ w \in Workers |-> [ workers[w] EXCEPT !.pc = "off" ] ]
    /\ stopper' = [ stopper EXCEPT !.pc = "idle", !.stopped = TRUE ]
    /\ UNCHANGED <<slots_, enqueue_pos_, dequeue_pos_, prunning_, pstats, producers,
                   qlog>>

(***************************************************************************)
(* The life of the engine: GridWatcher::GridWatcher, start, stop, the      *)
(* background threads, and the calls that reach the logger.                *)
(***************************************************************************)
LifePackets == 1       \* processPacket calls while start() and stop() are exercised

NoThreads == [ cleanup |-> "none", monitor |-> "none", created |-> 0 ]

\* a start that creates its threads whether or not the engine was running
createThreads_always(b, was_running) ==
    [ b EXCEPT !.cleanup = "run", !.monitor = "run", !.created = @ + 2 ]

\* start: cleanup_thread_ and monitor_thread_ are created unless the engine was
\* running already
createThreads(b, was_running) ==
    IF was_running THEN b
    ELSE [ b EXCEPT !.cleanup = "run", !.monitor = "run", !.created = @ + 2 ]

IdleSnap == [ pc |-> "idle", packets_processed |-> 0, packets_allowed |-> 0,
              packets_dropped |-> 0 ]

\* after GridWatcher::GridWatcher: logger_->start(); logger_->info(...)
LifeInit ==
    /\ logger_ = log(Logger_start(NewLogger), INFO)
    /\ ctl = IdleCtl
    /\ bg = NoThreads
    /\ snap = IdleSnap

\* the records one processPacket call hands to the logger: critical for each
\* threat, then the mitigation callback's warning (BLOCK_IP) or info
RECURSIVE logThreats(_, _, _)
logThreats(lg, actions, i) ==
    IF i > Len(actions) THEN lg
    ELSE logThreats(log(log(lg, CRITICAL),
                        IF actions[i] = "BLOCK_IP" THEN WARNING ELSE INFO),
                    actions, i + 1)

\* GridWatcher::processPacket with its calls of the logger
GridWatcher_processPacket(b, src, sport, dport) ==
    /\ processPacket(b, src, sport, dport)
    /\ logger_' = logThreats(logger_, Decide(b, src, sport, dport, Engine).actions, 1)
    /\ UNCHANGED <<ctl, bg, snap>>

\* GridWatcher::start
GridWatcher_start ==
    /\ ctl.pc = "idle"
    /\ start
    /\ bg' = createThreads(bg, running_)
    /\ logger_' = log(logger_, IF running_ THEN WARNING ELSE INFO)
    /\ ctl' = Enter("start", running_)
    /\ UNCHANGED snap

\* GridWatcher::stop: running_.exchange(false); return if it was false, else
\* logger_->info("Stopping") and go on to the joins
GridWatcher_stop ==
    /\ ctl.pc = "idle"
    /\ IF running_
       THEN /\ stop
            /\ logger_' = log(logger_, INFO)
            /\ ctl' = [ Enter("stop", FALSE) EXCEPT !.pc = "join_cleanup" ]
       ELSE /\ ctl' = Enter("stop", TRUE)
            /\ UNCHANGED <<engineVars, logger_>>
    /\ UNCHANGED <<bg, snap>>

\* stop: cleanup_thread_.join()
stop_join_cleanup ==
    /\ ctl.pc = "join_cleanup"
    /\ bg.cleanup = "exited"
    /\ bg' = [ bg EXCEPT !.cleanup = "none" ]
    /\ ctl' = [ ctl EXCEPT !.pc = "join_monitor" ]
    /\ UNCHANGED <<engineVars, logger_, snap>>

\* stop: monitor_thread_.join(); then logger_->stop()
stop_join_monitor ==
    /\ ctl.pc = "join_monitor"
    /\ bg.monitor = "exited"
    /\ bg' = [ bg EXCEPT !.monitor = "none" ]
    /\ ctl' = [ ctl EXCEPT !.pc = "logger_stop" ]
    /\ UNCHANGED <<engineVars, logger_, snap>>

\* cleanupLoop, one round while running_: mitigation_.cleanup(); logger_->info
cleanupLoop_round ==
    /\ bg.cleanup = "run"
    /\ cleanupLoop
    /\ logger_' = log(logger_, INFO)
    /\ UNCHANGED <<ctl, bg, snap>>

\* cleanupLoop: running_ is false, the thread function returns
cleanupLoop_exit ==
    /\ bg.cleanup = "run"
    /\ ~running_
    /\ bg' = [ bg EXCEPT !.cleanup = "exited" ]
    /\ UNCHANGED <<engineVars, logger_, ctl, snap>>

\* monitorLoop, one round while running_: getStatistics(); logger_->info
monitorLoop_round ==
    /\ bg.monitor = "run"
    /\ running_
    /\ logger_' = log(logger_, INFO)
    /\ UNCHANGED <<engineVars, ctl, bg, snap>>

\* monitorLoop: running_ is false, the thread function returns
monitorLoop_exit ==
    /\ bg.monitor = "run"
    /\ ~running_
    /\ bg' = [ bg EXCEPT !.monitor = "exited" ]
    /\ UNCHANGED <<engineVars, logger_, ctl, snap>>

\* PacketProcessor::start
PacketProcessor_start ==
    /\ ctl.pc = "idle"
    /\ IF prunning_ THEN UNCHANGED pipeVars ELSE pstart
    /\ ctl' = Enter("PacketProcessor::start", prunning_)
    /\ UNCHANGED <<logger_, bg, snap>>

\* PacketProcessor::stop: running_.exchange(false); return if it was false
PacketProcessor_stop ==
    /\ ctl.pc = "idle"
    /\ IF prunning_
       THEN /\ pstop
            /\ ctl' = [ Enter("PacketProcessor::stop", FALSE) EXCEPT !.pc = "pool_join" ]
       ELSE /\ ctl' = Enter("PacketProcessor::stop", TRUE)
            /\ UNCHANGED pipeVars
    /\ UNCHANGED <<logger_, bg, snap>>

\* PacketProcessor::stop: the joins are done
PacketProcessor_stop_joined ==
    /\ ctl.pc = "pool_join"
    /\ pstop_joined
    /\ ctl' = [ ctl EXCEPT !.pc = "idle" ]
    /\ UNCHANGED <<logger_, bg, snap>>

\* Statistics::getSnapshot, one relaxed load per step, in the order of the code
getSnapshot_processed ==
    /\ snap.pc \in { "idle", "done" }
    /\ snap' = [ IdleSnap EXCEPT !.pc = "allowed",
                                 !.packets_processed = stats_.packets_processed ]

getSnapshot_allowed ==
    /\ snap.pc = "allowed"
    /\ snap' = [ snap EXCEPT !.pc = "dropped", !.packets_allowed = stats_.packets_allowed ]

getSnapshot_dropped ==
    /\ snap.pc = "dropped"
    /\ snap' = [ snap EXCEPT !.pc = "done", !.packets_dropped = stats_.packets_dropped ]

(***************************************************************************)
(* BatchPacketProcessor.  batch_queue_ is the ring of 4.H (spec); its pop  *)
(* is taken as one step.  The constructor starts the worker threads and    *)
(* then stores running_ = true: the model starts between the two.          *)
(***************************************************************************)
BatchSize == 2
BatchCapacity == 2
MaxBatches == 2
NumBatchWorkers == 2

BatchWorkers == 1..NumBatchWorkers

NewBatchWorker == [ pc |-> "loop", batch |-> <<>>, i |-> 1 ]

\* the jobs of the k-th submitted vector, n of them
JobVector(k, n) ==
    [ i \in 1..n |-> [ batch |-> k, idx |-> i, allowed |-> FALSE, processed |-> FALSE ] ]

BatchInit ==
    /\ batch_queue_ = <<>>
    /\ brunning_ = FALSE
    /\ bworkers = [ w \in BatchWorkers |-> NewBatchWorker ]
    /\ bctl = [ pc |-> "ctor", submitted |-> 0, accepted |-> {}, size |-> 0, ret |-> TRUE ]
    /\ blog = <<>>

\* BatchPacketProcessor::BatchPacketProcessor, after the threads were created
BatchPacketProcessor_ctor ==
    /\ bctl.pc = "ctor"
    /\ brunning_' = TRUE
    /\ bctl' = [ bctl EXCEPT !.pc = "live" ]
    /\ UNCHANGED <<batch_queue_, bworkers, blog>>

submitBatch_reject(n) == n > BatchSize

submitBatch(n) ==
    /\ bctl.pc = "live"
    /\ bctl.submitted < MaxBatches
    /\ LET k == bctl.submitted + 1
           ok == ~submitBatch_reject(n) /\ Len(batch_queue_) < BatchCapacity
       IN /\ batch_queue_' = IF ok THEN Append(batch_queue_, JobVector(k, n))
                                   ELSE batch_queue_
          /\ bctl' = [ bctl EXCEPT !.submitted = k, !.size = n, !.ret = ok,
                                   !.accepted = IF ok THEN @ \cup {<<k, n>>} ELSE @ ]
    /\ UNCHANGED <<brunning_, bworkers, blog>>

\* ~BatchPacketProcessor: running_.store(false), then the joins
BatchPacketProcessor_dtor ==
    /\ bctl.pc = "live"
    /\ brunning_' = FALSE
    /\ bctl' = [ bctl EXCEPT !.pc = "join" ]
    /\ UNCHANGED <<batch_queue_, bworkers, blog>>

BatchPacketProcessor_dtor_joined ==
    /\ bctl.pc = "join"
    /\ \A w \in BatchWorkers : bworkers[w].pc = "exit"
    /\ bctl' = [ bctl EXCEPT !.pc = "gone" ]
    /\ UNCHANGED <<batch_queue_, brunning_, bworkers, blog>>

\* batchWorker: while (running_.load())
batchWorker_loop(w) ==
    /\ bworkers[w].pc = "loop"
    /\ bworkers' = [ bworkers EXCEPT ![w].pc = IF brunning_ THEN "pop" ELSE "exit" ]
    /\ UNCHANGED <<batch_queue_, brunning_, bctl, blog>>

\* batchWorker: if (batch_queue_.pop(batch)) ... else yield
batchWorker_pop(w) ==
    /\ bworkers[w].pc = "pop"
    /\ IF batch_queue_ # <<>>
       THEN /\ batch_queue_' = Tail(batch_queue_)
            /\ bworkers' = [ bworkers EXCEPT
                  ![w] = [ pc |-> IF Len(Head(batch_queue_)) = 0 THEN "loop" ELSE "run",
                           batch |-> Head(batch_queue_), i |-> 1 ] ]
       ELSE /\ bworkers' = [ bworkers EXCEPT ![w].pc = "loop" ]
            /\ UNCHANGED batch_queue_
    /\ UNCHANGED <<brunning_, bctl, blog>>

\* batchWorker: one round of the for loop over the batch
batchWorker_process(w) ==
    LET me == bworkers[w] IN
    /\ me.pc = "run"
    /\ processPacket(ReadPkt, JobSource, ClientPort, ModbusPort)
    /\ blog' = Append(blog, [ worker |-> w, batch |-> me.batch[me.i].batch,
                              idx |-> me.batch[me.i].idx ])
    /\ bworkers' = [ bworkers EXCEPT
          ![w].batch[me.i].allowed = last'.result,
          ![w].batch[me.i].processed = TRUE,
          ![w].i = me.i + 1,
          ![w].pc = IF me.i = Len(me.batch) THEN "loop" ELSE "run" ]
    /\ UNCHANGED <<batch_queue_, brunning_, bctl>>

(***************************************************************************)
(* capture::LatencyTracker.  record is a sequence of atomic accesses, one  *)
(* per step.  UINT64_MAX stands for the largest value of the counter type: *)
(* it is above every sample.                                               *)
(***************************************************************************)
HISTOGRAM_SIZE == 32
UINT64_MAX == 2147483647
NumRecorders == 2
MaxRecords == 2

Recorders == 1..NumRecorders
Latencies == {0, 5, 20}

RECURSIVE Log2(_)
Log2(n) == IF n <= 1 THEN 0 ELSE 1 + Log2(n \div 2)

\* min((63 - clz(ns | 1)) / 2, HISTOGRAM_SIZE - 1)
Bucket(ns) == Min(Log2(IF ns % 2 = 0 THEN ns + 1 ELSE ns) \div 2, HISTOGRAM_SIZE - 1)

\* Variant of the exchange that stores whatever the atomic holds.
compare_exchange_blind(actual, expected, desired) ==
    [ ok |-> TRUE, value |-> desired, expected |-> expected ]

\* compare_exchange_weak on an atomic holding `actual`; a spurious failure
\* leaves the atomic and `expected` as they are and is a stuttering step.
compare_exchange(actual, expected, desired) ==
    IF actual = expected
    THEN [ ok |-> TRUE, value |-> desired, expected |-> expected ]
    ELSE [ ok |-> FALSE, value |-> actual, expected |-> actual ]

IdleRecorder == [ pc |-> "idle", ns |-> 0, current |-> 0, done |-> <<>> ]

LatencyInit ==
    /\ latency_ = [ total_samples_ |-> 0, total_latency_ns_ |-> 0,
                    min_latency_ns_ |-> UINT64_MAX, max_latency_ns_ |-> 0,
                    histogram_ |-> [ b \in 0..(HISTOGRAM_SIZE - 1) |-> 0 ] ]
    /\ recorders = [ t \in Recorders |-> IdleRecorder ]

\* record: total_samples_.fetch_add(1)
record_samples(t, ns) ==
    /\ recorders[t].pc = "idle"
    /\ Len(recorders[t].done) < MaxRecords
    /\ latency_' = [ latency_ EXCEPT !.total_samples_ = @ + 1 ]
    /\ recorders' = [ recorders EXCEPT ![t].pc = "total", ![t].ns = ns ]

\* record: total_latency_ns_.fetch_add(ns)
record_total(t) ==
    /\ recorders[t].pc = "total"
    /\ latency_' = [ latency_ EXCEPT !.total_latency_ns_ = @ + recorders[t].ns ]
    /\ recorders' = [ recorders EXCEPT ![t].pc = "min_load" ]

\* record: current_min = min_latency_ns_.load()
record_min_load(t) ==
    /\ recorders[t].pc = "min_load"
    /\ recorders' = [ recorders EXCEPT ![t].pc = "min_cas",
                                       ![t].current = latency_.min_latency_ns_ ]
    /\ UNCHANGED latency_

\* record: while (ns < current_min && !compare_exchange_weak(current_min, ns)) {}
record_min_cas(t) ==
    LET me == recorders[t]
        r  == compare_exchange(latency_.min_latency_ns_, me.current, me.ns)
    IN
    /\ me.pc = "min_cas"
    /\ IF me.ns < me.current
       THEN /\ latency_' = [ latency_ EXCEPT !.min_latency_ns_ = r.value ]
            /\ recorders' = [ recorders EXCEPT
                  ![t].pc = IF r.ok THEN "max_load" ELSE "min_cas",
                  ![t].current = r.expected ]
       ELSE /\ recorders' = [ recorders EXCEPT ![t].pc = "max_load" ]
            /\ UNCHANGED latency_

\* record: current_max = max_latency_ns_.load()
record_max_load(t) ==
    /\ recorders[t].pc = "max_load"
    /\ recorders' = [ recorders EXCEPT ![t].pc = "max_cas",
                                       ![t].current = latency_.max_latency_ns_ ]
    /\ UNCHANGED latency_

\* record: while (ns > current_max && !compare_exchange_weak(current_max, ns)) {}
record_max_cas(t) ==
    LET me == recorders[t]
        r  == compare_exchange(latency_.max_latency_ns_, me.current, me.ns)
    IN
    /\ me.pc = "max_cas"
    /\ IF me.ns > me.current
       THEN /\ latency_' = [ latency_ EXCEPT !.max_latency_ns_ = r.value ]
            /\ recorders' = [ recorders EXCEPT
                  ![t].pc = IF r.ok THEN "histogram" ELSE "max_cas",
                  ![t].current = r.expected ]
       ELSE /\ recorders' = [ recorders EXCEPT ![t].pc = "histogram" ]
            /\ UNCHANGED latency_

\* record: histogram_[bucket].fetch_add(1); the call returns
record_histogram(t) ==
    LET me == recorders[t] IN
    /\ me.pc = "histogram"
    /\ latency_' = [ latency_ EXCEPT !.histogram_[Bucket(me.ns)] = @ + 1 ]
    /\ recorders' = [ recorders EXCEPT ![t].pc = "idle",
                                       ![t].done = Append(@, me.ns) ]

\* LatencyTracker::getStats; avg_ns is total / samples, kept as the two numbers
getStats ==
    IF latency_.total_samples_ > 0
    THEN [ samples |-> latency_.total_samples_,
           min_ns |-> latency_.min_latency_ns_,
           max_ns |-> latency_.max_latency_ns_,
           avg_ns |-> << latency_.total_latency_ns_, latency_.total_samples_ >> ]
    ELSE [ samples |-> 0, min_ns |-> 0, max_ns |-> 0, avg_ns |-> << 0, 1 >> ]

(***************************************************************************)
(* capture::ThroughputTracker: the slot that the seconds of the model map  *)
(* to, and the threads inside record.                                      *)
(***************************************************************************)
WINDOW_SIZE == 60
NumCounters == 2
MaxCounts == 2

Counters == 1..NumCounters
Seconds == { WINDOW_SIZE, 2 * WINDOW_SIZE }
ByteSizes == { Len(ShortPkt), Len(ReadPkt) }

IdleCounter == [ pc |-> "idle", now_sec |-> 0, expected_ts |-> 0, bytes |-> 0,
                 done |-> <<>> ]

ThroughputInit ==
    /\ windows_ = [ packets |-> 0, bytes |-> 0, timestamp_sec |-> 0 ]
    /\ clock_sec = WINDOW_SIZE
    /\ counters = [ t \in Counters |-> IdleCounter ]

\* the clock reaches the second that shares the slot, while no call is running
ClockAdvance ==
    /\ clock_sec = WINDOW_SIZE
    /\ \A t \in Counters : counters[t].pc = "idle"
    /\ clock_sec' = 2 * WINDOW_SIZE
    /\ UNCHANGED <<windows_, counters>>

\* record: now_sec = system_clock::now() ...; idx = now_sec % WINDOW_SIZE
throughput_now(t, bytes) ==
    /\ counters[t].pc = "idle"
    /\ Len(counters[t].done) < MaxCounts
    /\ counters' = [ counters EXCEPT ![t].pc = "load", ![t].now_sec = clock_sec,
                                     ![t].bytes = bytes ]
    /\ UNCHANGED <<windows_, clock_sec>>

\* record: expected_ts = window.timestamp_sec.load(); if (expected_ts != now_sec)
throughput_load(t) ==
    /\ counters[t].pc = "load"
    /\ counters' = [ counters EXCEPT
          ![t].expected_ts = windows_.timestamp_sec,
          ![t].pc = IF windows_.timestamp_sec # counters[t].now_sec
                    THEN "exchange" ELSE "add_packets" ]
    /\ UNCHANGED <<windows_, clock_sec>>

\* record: if (window.timestamp_sec.compare_exchange_strong(expected_ts, now_sec))
throughput_exchange(t) ==
    LET me == counters[t] IN
    /\ me.pc = "exchange"
    /\ IF windows_.timestamp_sec = me.expected_ts
       THEN /\ windows_' = [ windows_ EXCEPT !.timestamp_sec = me.now_sec ]
            /\ counters' = [ counters EXCEPT ![t].pc = "reset_packets" ]
       ELSE /\ counters' = [ counters EXCEPT ![t].pc = "add_packets",
                                             ![t].expected_ts = windows_.timestamp_sec ]
            /\ UNCHANGED windows_
    /\ UNCHANGED clock_sec

\* record: window.packets.store(0)
throughput_reset_packets(t) ==
    /\ counters[t].pc = "reset_packets"
    /\ windows_' = [ windows_ EXCEPT !.packets = 0 ]
    /\ counters' = [ counters EXCEPT ![t].pc = "reset_bytes" ]
    /\ UNCHANGED clock_sec

\* record: window.bytes.store(0)
throughput_reset_bytes(t) ==
    /\ counters[t].pc = "reset_bytes"
    /\ windows_' = [ windows_ EXCEPT !.bytes = 0 ]
    /\ counters' = [ counters EXCEPT ![t].pc = "add_packets" ]
    /\ UNCHANGED clock_sec

\* record: window.packets.fetch_add(1)
throughput_add_packets(t) ==
    /\ counters[t].pc = "add_packets"
    /\ windows_' = [ windows_ EXCEPT !.packets = @ + 1 ]
    /\ counters' = [ counters EXCEPT ![t].pc = "add_bytes" ]
    /\ UNCHANGED clock_sec

\* record: window.bytes.fetch_add(bytes); the call returns
throughput_add_bytes(t) ==
    LET me == counters[t] IN
    /\ me.pc = "add_bytes"
    /\ windows_' = [ windows_ EXCEPT !.bytes = @ + me.bytes ]
    /\ counters' = [ counters EXCEPT
          ![t].pc = "idle",
          ![t].done = Append(@, [ sec |-> me.now_sec, bytes |-> me.bytes ]) ]
    /\ UNCHANGED clock_sec

(***************************************************************************)
(* Calls taken one atomic access at a time.                                *)
(*                                                                         *)
(* BloomFilter::add (spec): one fetch_or per bit position, in the order of *)
(* the hash functions.                                                     *)
(***************************************************************************)
NumAdders == 2

Adders == 1..NumAdders

IdleAdder == [ pc |-> "idle", x |-> 0, todo |-> {}, done |-> {} ]

\* Variant of a bit write that stores the word instead of or-ing into it.
fetch_or_store(bits, pos) == {pos}

fetch_or(bits, pos) == bits \cup {pos}

\* GridWatcher::blockIP, first statement: mitigation_.blockIP(ip, duration);
\* the positions of blocked_ips_cache_.add(ip) are computed
blockIP_record(t, a) ==
    /\ adders[t].pc = "idle"
    /\ admin_calls < MaxAdmin
    /\ blocked_ips' = blockRecord(blocked_ips, a, config_.auto_block_duration, now, config_)
    /\ admin_calls' = admin_calls + 1
    /\ last' = NoCall
    /\ adders' = [ adders EXCEPT ![t].pc = "bits", ![t].x = a,
                                 ![t].todo = BloomPositions(a) ]
    /\ UNCHANGED <<config_, now, running_, whitelisted_ips_cache_, blocked_ips_cache_,
                   whitelist, source_state, stats_>>

\* add(x): the fetch_or of the lowest position not yet written; the call
\* returns after the last
add_bit(t) ==
    LET me  == adders[t]
        pos == CHOOSE q \in me.todo : \A r \in me.todo : q <= r
    IN
    /\ me.pc = "bits"
    /\ blocked_ips_cache_' = fetch_or(blocked_ips_cache_, pos)
    /\ adders' = [ adders EXCEPT
                     ![t].todo = me.todo \ {pos},
                     ![t].pc = IF me.todo = {pos} THEN "idle" ELSE "bits",
                     ![t].done = IF me.todo = {pos} THEN @ \cup {me.x} ELSE @ ]
    /\ UNCHANGED <<config_, now, running_, whitelisted_ips_cache_, whitelist,
                   blocked_ips, source_state, stats_, last, admin_calls>>

(***************************************************************************)
(* GridWatcher::processPacket as its callers' threads run it: the entry    *)
(* statement stats_.incrementPacketsProcessed() is one step, the rest of   *)
(* the call up to its return is the other.                                 *)
(***************************************************************************)
NumCallers == 2

Callers == 1..NumCallers

IdleCaller == [ pc |-> "idle", b |-> <<>>, src |-> 0, dport |-> 0 ]

\* the engine as a call reads it after its entry statement: Decide counts
\* the packet itself, and the entry step has already counted it
Entered == [ Engine EXCEPT !.st = [ stats_ EXCEPT !.packets_processed = @ - 1 ] ]

processPacket_enter(t, b, src, dport) ==
    /\ callers[t].pc = "idle"
    /\ stats_.packets_processed < MaxPackets
    /\ stats_' = incrementPacketsProcessed(stats_)
    /\ callers' = [ callers EXCEPT ![t] = [ pc |-> "inside", b |-> b, src |-> src,
                                           dport |-> dport ] ]
    /\ UNCHANGED <<config_, now, running_, whitelisted_ips_cache_, blocked_ips_cache_,
                   whitelist, blocked_ips, source_state, last, admin_calls>>

processPacket_return(t) ==
    LET me == callers[t]
        d  == Decide(me.b, me.src, ClientPort, me.dport, Entered)
    IN
    /\ me.pc = "inside"
    /\ stats_' = d.st
    /\ blocked_ips' = d.tbl
    /\ blocked_ips_cache_' = d.bcache
    /\ source_state' = d.states
    /\ last' = [ NoCall EXCEPT !.op = "processPacket", !.src = me.src,
                               !.result = d.result, !.path = d.path,
                               !.logged = d.logged ]
    /\ callers' = [ callers EXCEPT ![t] = IdleCaller ]
    /\ UNCHANGED <<config_, now, running_, whitelisted_ips_cache_, whitelist,
                   admin_calls>>

(***************************************************************************)
(* LatencyTracker::getStats as a reader thread runs it, one load per step. *)
(***************************************************************************)
IdleReader == [ pc |-> "idle", samples |-> 0, min_ns |-> 0, max_ns |-> 0,
                total |-> 0 ]

\* stats.samples = total_samples_.load(); the else branch returns zeros
getStats_samples ==
    /\ reader.pc = "idle"
    /\ reader' = IF latency_.total_samples_ > 0
                 THEN [ IdleReader EXCEPT !.pc = "min",
                                          !.samples = latency_.total_samples_ ]
                 ELSE [ IdleReader EXCEPT !.pc = "done" ]

\* stats.min_ns = min_latency_ns_.load()
getStats_min ==
    /\ reader.pc = "min"
    /\ reader' = [ reader EXCEPT !.pc = "max", !.min_ns = latency_.min_latency_ns_ ]

\* stats.max_ns = max_latency_ns_.load()
getStats_max ==
    /\ reader.pc = "max"
    /\ reader' = [ reader EXCEPT !.pc = "total", !.max_ns = latency_.max_latency_ns_ ]

\* total = total_latency_ns_.load(); the call returns
getStats_total ==
    /\ reader.pc = "total"
    /\ reader' = [ reader EXCEPT !.pc = "done", !.total = latency_.total_latency_ns_ ]

StepInit ==
    /\ adders = [ t \in Adders |-> IdleAdder ]
    /\ callers = [ t \in Callers |-> IdleCaller ]
    /\ reader = IdleReader

(***************************************************************************)
(* Specifications.                                                         *)
(***************************************************************************)
\* the packets handed to processPacket: <<buffer, destination port>>
PacketInputs == { <<ReadPkt, ModbusPort>> }

\* no call is being observed
NoSolo == [ who |-> 0, steps |-> 0, spurious |-> 0 ]

NoApiCall == [ calls |-> 0, text |-> <<>>, result |-> "none" ]

SideInit == api = NoApiCall /\ BatchInit /\ LatencyInit /\ ThroughputInit /\ StepInit

OtherInit == solo = NoSolo /\ LifeInit /\ SideInit

Init == EngineInit(Configs) /\ PipeInit /\ OtherInit

\* the engine called directly, with its admin surface and the clock
Next ==
    \/ \E p \in PacketInputs, src \in Addrs :
          /\ stats_.packets_processed < MaxPackets
          /\ processPacket(p[1], src, ClientPort, p[2])
          /\ UNCHANGED <<pipeVars, otherVars>>
    \/ \E a \in BlockInputs : blockIP(a) /\ UNCHANGED <<pipeVars, otherVars>>
    \/ \E a \in BlockInputs : unblockIP(a) /\ UNCHANGED <<pipeVars, otherVars>>
    \/ \E a \in WhitelistInputs : addWhitelist(a) /\ UNCHANGED <<pipeVars, otherVars>>
    \/ Tick /\ UNCHANGED <<pipeVars, otherVars>>

Spec == Init /\ [][Next]_vars

\* the pipeline in front of an engine with automatic blocking
InitPipe == EngineInit({ c \in Configs : c.auto_block_enabled }) /\ PipeInit /\ OtherInit

NextPipe ==
    \/ \E p \in Producers :
          /\ \/ submitPacket(p)
             \/ enqueue_seq(p)
             \/ enqueue_reload(p)
             \/ enqueue_cas(p)
             \/ enqueue_move(p)
             \/ enqueue_store(p)
             \/ submit_queued(p)
             \/ submit_full(p)
          /\ UNCHANGED <<engineVars, otherVars>>
    \/ \E w \in Workers :
          /\ \/ worker_loop(w)
             \/ dequeue_seq(w)
             \/ dequeue_reload(w)
             \/ dequeue_cas(w)
             \/ dequeue_move(w)
             \/ dequeue_store(w)
             \/ worker_store_allowed(w)
             \/ worker_store_processed(w)
             \/ worker_count(w)
          /\ UNCHANGED <<engineVars, otherVars>>
    \/ \E w \in Workers : worker_process(w) /\ UNCHANGED otherVars
    \/ (pstart \/ pstop \/ pstop_joined) /\ UNCHANGED <<engineVars, otherVars>>

SpecPipe == InitPipe /\ [][NextPipe]_vars

\* a step of worker thread w other than its call of processPacket
WorkerQueueStep(w) ==
    \/ worker_loop(w)
    \/ dequeue_seq(w)
    \/ dequeue_reload(w)
    \/ dequeue_cas(w)
    \/ dequeue_move(w)
    \/ dequeue_store(w)
    \/ worker_store_allowed(w)
    \/ worker_store_processed(w)
    \/ worker_count(w)

\* what worker_process(w) does to the worker: processPacket has no guard, so the
\* call is enabled whenever the worker stands before it, and the step from
\* "process" to "store_allowed" is taken by worker_process(w) only
WorkerProcessStep(w) ==
    /\ workers[w].pc = "process"
    /\ \E r \in BOOLEAN :
          workers' = [ workers EXCEPT ![w].pc = "store_allowed", ![w].ret = r ]

\* the compare_exchange_weak of dequeue succeeding
DequeueCasSuccess(w) ==
    /\ dequeue_cas(w)
    /\ dequeue_pos_' # dequeue_pos_

\* The scheduler runs every worker thread and the thread inside stop() again and
\* again, and a compare_exchange_weak whose expected value is current does not
\* fail spuriously for ever.  Nothing is assumed about the producers.
PipeFairness ==
    /\ \A w \in Workers : /\ WF_pipeVars(WorkerQueueStep(w))
                          /\ WF_workers(WorkerProcessStep(w))
                          /\ SF_pipeVars(DequeueCasSuccess(w))
    /\ WF_pipeVars(pstop_joined)

SpecPipeFair == InitPipe /\ [][NextPipe]_vars /\ PipeFairness

(***************************************************************************)
(* One call of submitPacket run alone: from any state of the pipeline a    *)
(* producer begins a call and, until the call returns, no other thread     *)
(* takes a step.                                                           *)
(***************************************************************************)
MaxSpurious == 1   \* spurious failures of compare_exchange_weak in one such call

\* the steps of a call that claims a slot at once: load, sequence, exchange,
\* move, store, count; a spurious failure repeats sequence and exchange
SoloBound == 6 + 2 * MaxSpurious

\* producer p enters submitPacket and the other threads stop
SoloBegin(p) ==
    /\ solo.who = 0
    /\ submitPacket(p)
    /\ solo' = [ who |-> p, steps |-> 1, spurious |-> 0 ]
    /\ UNCHANGED <<engineVars, lifeVars, sideVars>>

\* the exchange of p failed although enqueue_pos_ held the expected value
SpuriousFailure(p) ==
    /\ producers[p].pc = "enq_cas"
    /\ enqueue_pos_ = producers[p].pos
    /\ producers'[p].pc = "enq_seq"

\* the next step of the call of p; when it returns the other threads resume
SoloStep(p) ==
    /\ solo.who = p
    /\ \/ enqueue_seq(p)
       \/ enqueue_reload(p)
       \/ enqueue_cas(p)
       \/ enqueue_move(p)
       \/ enqueue_store(p)
       \/ submit_queued(p)
       \/ submit_full(p)
    /\ SpuriousFailure(p) => solo.spurious < MaxSpurious
    /\ solo' = IF producers'[p].pc = "idle"
               THEN NoSolo
               ELSE [ solo EXCEPT !.steps = @ + 1,
                                  !.spurious = IF SpuriousFailure(p) THEN @ + 1 ELSE @ ]
    /\ UNCHANGED <<engineVars, lifeVars, sideVars>>

NextSolo ==
    \/ solo.who = 0 /\ NextPipe
    \/ \E p \in Producers : SoloBegin(p)
    \/ \E p \in Producers : SoloStep(p)

SpecSolo == InitPipe /\ [][NextSolo]_vars

(***************************************************************************)
(* The logger on its own: a thread that starts and stops it, clients that  *)
(* log at DEBUG or INFO, and the writer thread.                            *)
(***************************************************************************)
InitLog ==
    /\ EngineInit({ c \in Configs : c.auto_block_enabled })
    /\ PipeInit
    /\ solo = NoSolo
    /\ SideInit
    /\ logger_ = NewLogger
    /\ ctl = IdleCtl
    /\ bg = NoThreads
    /\ snap = IdleSnap

notLogger == <<engineVars, pipeVars, solo, sideVars, bg, snap>>

NextLog ==
    \/ \E level \in { DEBUG, INFO } :
          /\ logger_.attempts < MaxLogs
          /\ logger_' = log(logger_, level)
          /\ UNCHANGED <<ctl, notLogger>>
    \/ /\ ctl.pc = "idle"
       /\ ctl.calls < MaxCalls
       /\ logger_' = Logger_start(logger_)
       /\ ctl' = Enter("Logger::start", logger_.running)
       /\ UNCHANGED notLogger
    \/ /\ ctl.pc = "idle"
       /\ ctl.calls < MaxCalls
       /\ ctl' = [ Enter("Logger::stop", ~logger_.running) EXCEPT !.pc = "logger_stop" ]
       /\ UNCHANGED <<logger_, notLogger>>
    \/ Logger_stop_exchange /\ UNCHANGED notLogger
    \/ Logger_stop_join /\ UNCHANGED notLogger
    \/ Logger_stop_flush /\ UNCHANGED notLogger
    \/ Logger_stop_close /\ UNCHANGED notLogger
    \/ writer_pop /\ UNCHANGED <<ctl, notLogger>>
    \/ writer_write /\ UNCHANGED <<ctl, notLogger>>
    \/ writer_exit /\ UNCHANGED <<ctl, notLogger>>

SpecLog == InitLog /\ [][NextLog]_vars

(***************************************************************************)
(* The engine and the worker pool started and stopped by one thread, with  *)
(* the background threads, the writer thread and a caller of processPacket.*)
(***************************************************************************)
InitLife ==
    /\ EngineInit({ c \in Configs : c.auto_block_enabled } \cup InvalidConfigs)
    /\ PipeInit
    /\ solo = NoSolo
    /\ SideInit
    /\ LifeInit

NextLife ==
    \/ /\ stats_.packets_processed < LifePackets
       /\ logger_.attempts < MaxLogs
       /\ GridWatcher_processPacket(ReadPkt, JobSource, ClientPort, ModbusPort)
       /\ UNCHANGED <<pipeVars, solo, sideVars>>
    \/ ctl.calls < MaxCalls /\ GridWatcher_start /\ UNCHANGED <<pipeVars, solo, sideVars>>
    \/ ctl.calls < MaxCalls /\ GridWatcher_stop /\ UNCHANGED <<pipeVars, solo, sideVars>>
    \/ stop_join_cleanup /\ UNCHANGED <<pipeVars, solo, sideVars>>
    \/ stop_join_monitor /\ UNCHANGED <<pipeVars, solo, sideVars>>
    \/ Logger_stop_exchange /\ UNCHANGED <<engineVars, pipeVars, solo, sideVars, bg, snap>>
    \/ Logger_stop_join /\ UNCHANGED <<engineVars, pipeVars, solo, sideVars, bg, snap>>
    \/ Logger_stop_flush /\ UNCHANGED <<engineVars, pipeVars, solo, sideVars, bg, snap>>
    \/ Logger_stop_close /\ UNCHANGED <<engineVars, pipeVars, solo, sideVars, bg, snap>>
    \/ writer_pop /\ UNCHANGED <<engineVars, pipeVars, solo, sideVars, ctl, bg, snap>>
    \/ writer_write /\ UNCHANGED <<engineVars, pipeVars, solo, sideVars, ctl, bg, snap>>
    \/ writer_exit /\ UNCHANGED <<engineVars, pipeVars, solo, sideVars, ctl, bg, snap>>
    \/ logger_.attempts < MaxLogs /\ cleanupLoop_round /\ UNCHANGED <<pipeVars, solo, sideVars>>
    \/ cleanupLoop_exit /\ UNCHANGED <<pipeVars, solo, sideVars>>
    \/ logger_.attempts < MaxLogs /\ monitorLoop_round /\ UNCHANGED <<pipeVars, solo, sideVars>>
    \/ monitorLoop_exit /\ UNCHANGED <<pipeVars, solo, sideVars>>
    \/ ctl.calls < MaxCalls /\ PacketProcessor_start /\ UNCHANGED <<engineVars, solo, sideVars>>
    \/ ctl.calls < MaxCalls /\ PacketProcessor_stop /\ UNCHANGED <<engineVars, solo, sideVars>>
    \/ PacketProcessor_stop_joined /\ UNCHANGED <<engineVars, solo, sideVars>>
    \/ \E w \in Workers :
          WorkerQueueStep(w) /\ UNCHANGED <<engineVars, otherVars>>

SpecLife == InitLife /\ [][NextLife]_vars

(***************************************************************************)
(* Statistics read by one thread while another calls processPacket.        *)
(***************************************************************************)
NextSnap ==
    \/ \E p \in PacketInputs, src \in Addrs :
          /\ stats_.packets_processed < MaxPackets
          /\ processPacket(p[1], src, ClientPort, p[2])
          /\ UNCHANGED <<pipeVars, otherVars>>
    \/ getSnapshot_processed
          /\ UNCHANGED <<engineVars, pipeVars, solo, sideVars, logger_, ctl, bg>>
    \/ getSnapshot_allowed
          /\ UNCHANGED <<engineVars, pipeVars, solo, sideVars, logger_, ctl, bg>>
    \/ getSnapshot_dropped
          /\ UNCHANGED <<engineVars, pipeVars, solo, sideVars, logger_, ctl, bg>>

SpecSnap == Init /\ [][NextSnap]_vars

(***************************************************************************)
(* The whitelist administered while packets arrive.                        *)
(***************************************************************************)
NextWl ==
    \/ \E p \in PacketInputs, src \in Addrs :
          /\ stats_.packets_processed < MaxPackets
          /\ processPacket(p[1], src, ClientPort, p[2])
          /\ UNCHANGED <<pipeVars, otherVars>>
    \/ \E a \in WhitelistInputs : addWhitelist(a) /\ UNCHANGED <<pipeVars, otherVars>>
    \/ \E a \in ConfigWhitelist \cup WhitelistInputs :
          removeWhitelist(a) /\ UNCHANGED <<pipeVars, otherVars>>

SpecWl == Init /\ [][NextWl]_vars

(***************************************************************************)
(* web::GridWatcherAPI: the admin operations that take the address as      *)
(* text.  A text is a sequence of tokens: a run of decimal digits with its *)
(* value, or a single other character.                                     *)
(***************************************************************************)
Num(n) == [ kind |-> "num", val |-> n ]
Chr(ch) == [ kind |-> "chr", val |-> ch ]
Dot == Chr(46)
Quad(a, b, c, d) == << Num(a), Dot, Num(b), Dot, Num(c), Dot, Num(d) >>

Texts ==
    { Quad(0, 0, 0, 2),                          \* "0.0.0.2"
      Quad(0, 0, 0, 258),                        \* "0.0.0.258"
      Quad(0, 0, 0, 2) \o << Chr(120) >>,        \* "0.0.0.2x"
      << Num(0), Dot, Num(0), Dot, Num(2) >>,    \* "0.0.2"
      << Chr(120) >> }                           \* "x"

\* A dotted quad: four decimal numbers of at most 255 separated by dots, and
\* nothing else.
isDottedQuad(text) ==
    /\ Len(text) = 7
    /\ \A i \in {1, 3, 5, 7} : text[i].kind = "num" /\ text[i].val <= 255
    /\ \A i \in {2, 4, 6} : text[i] = Dot

\* sscanf(ip, "%u.%u.%u.%u", &a, &b, &c, &d): the values converted so far; a
\* conversion fails on a token that is not a number, the literal '.' must
\* follow each of the first three, and what follows the fourth is not read.
\* Every number of Texts fits an unsigned int, so %u converts it unchanged.
RECURSIVE sscanf(_, _, _)
sscanf(text, i, vals) ==
    IF i > Len(text) \/ text[i].kind # "num" THEN vals
    ELSE LET got == Append(vals, text[i].val) IN
         IF Len(got) = 4 THEN got
         ELSE IF i + 1 <= Len(text) /\ text[i + 1] = Dot
              THEN sscanf(text, i + 2, got)
              ELSE got

\* net::ipv4 addr({static_cast<uint8_t>(a), ...}) as a 32-bit number.
ipv4(vals) ==
    LET o(k) == vals[k] % 256 IN ((o(1) * 256 + o(2)) * 256 + o(3)) * 256 + o(4)

GridWatcherAPI_blockIP(text) ==
    LET vals == sscanf(text, 1, <<>>) IN
    /\ api.calls < MaxAdmin
    /\ IF Len(vals) # 4
       THEN /\ api' = [ calls |-> api.calls + 1, text |-> text, result |-> "error" ]
            /\ UNCHANGED engineVars
       ELSE /\ blockIP(ipv4(vals))
            /\ api' = [ calls |-> api.calls + 1, text |-> text, result |-> "success" ]

GridWatcherAPI_unblockIP(text) ==
    LET vals == sscanf(text, 1, <<>>) IN
    /\ api.calls < MaxAdmin
    /\ IF Len(vals) # 4
       THEN /\ api' = [ calls |-> api.calls + 1, text |-> text, result |-> "error" ]
            /\ UNCHANGED engineVars
       ELSE /\ unblockIP(ipv4(vals))
            /\ api' = [ calls |-> api.calls + 1, text |-> text, result |-> "success" ]

notApi == <<pipeVars, solo, lifeVars, batchVars, latencyVars, throughputVars, stepVars>>

NextApi ==
    \/ \E text \in Texts :
          GridWatcherAPI_blockIP(text) /\ UNCHANGED notApi
    \/ \E text \in Texts :
          GridWatcherAPI_unblockIP(text) /\ UNCHANGED notApi
    \/ \E p \in PacketInputs, src \in Addrs :
          /\ stats_.packets_processed < MaxPackets
          /\ processPacket(p[1], src, ClientPort, p[2])
          /\ UNCHANGED <<pipeVars, otherVars>>

SpecApi == Init /\ [][NextApi]_vars

(***************************************************************************)
(* Packets on several ports, under the default monitored_ports and under   *)
(* the one the command line sets from -p.                                  *)
(***************************************************************************)
PortConfigs == Configs \cup { [ c EXCEPT !.monitored_ports = {OtherPort} ] : c \in Configs }

PortInputs == { <<ReadPkt, ModbusPort>>, <<ReadPkt, OtherPort>>, <<ReadPkt, DnpPort>> }

InitPorts == EngineInit(PortConfigs) /\ PipeInit /\ OtherInit

NextPorts ==
    \/ \E p \in PortInputs :
          /\ stats_.packets_processed < MaxPackets
          /\ processPacket(p[1], JobSource, ClientPort, p[2])
          /\ UNCHANGED <<pipeVars, otherVars>>
    \/ Tick /\ UNCHANGED <<pipeVars, otherVars>>

SpecPorts == InitPorts /\ [][NextPorts]_vars

(***************************************************************************)
(* Packets of every kind from one source, so that the rules fire alone and *)
(* together.  The exception threshold is below the flood threshold: the    *)
(* MEDIUM alert can then be the highest of a packet.                       *)
(***************************************************************************)
ThreatConfigs == { [ c EXCEPT !.exception_rate_threshold = 1 ] : c \in Configs }

ThreatInputs == { <<b, ModbusPort>> : b \in Buffers }

InitThreats == EngineInit(ThreatConfigs) /\ PipeInit /\ OtherInit

NextThreats ==
    \/ \E p \in ThreatInputs :
          /\ stats_.packets_processed < MaxPackets
          /\ processPacket(p[1], JobSource, ClientPort, p[2])
          /\ UNCHANGED <<pipeVars, otherVars>>
    \/ Tick /\ UNCHANGED <<pipeVars, otherVars>>

SpecThreats == InitThreats /\ [][NextThreats]_vars

\* The alerts the analyzer returns for the packet p of JobSource in this state.
ThreatsOf(p) ==
    analyze(source_state[JobSource],
            buildPacketMetadata(p[1], JobSource, ClientPort, p[2]), now, config_).threats

Highest(threats) ==
    LET ranks == {0} \cup { SeverityRank(threats[i].severity) : i \in 1..Len(threats) }
    IN CHOOSE r \in ranks : \A q \in ranks : q <= r

(***************************************************************************)
(* The batch path: the constructor's store, submissions, the destructor    *)
(* and the worker threads, one atomic access or one processPacket a step.  *)
(***************************************************************************)
notBatch == <<pipeVars, solo, lifeVars, api, latencyVars, throughputVars, stepVars>>

NextBatch ==
    \/ BatchPacketProcessor_ctor /\ UNCHANGED <<engineVars, notBatch>>
    \/ \E n \in 0..(BatchSize + 1) : submitBatch(n) /\ UNCHANGED <<engineVars, notBatch>>
    \/ BatchPacketProcessor_dtor /\ UNCHANGED <<engineVars, notBatch>>
    \/ BatchPacketProcessor_dtor_joined /\ UNCHANGED <<engineVars, notBatch>>
    \/ \E w \in BatchWorkers : batchWorker_loop(w) /\ UNCHANGED <<engineVars, notBatch>>
    \/ \E w \in BatchWorkers : batchWorker_pop(w) /\ UNCHANGED <<engineVars, notBatch>>
    \/ \E w \in BatchWorkers : batchWorker_process(w) /\ UNCHANGED notBatch

SpecBatch == Init /\ [][NextBatch]_vars

\* The scheduler runs every thread that can take a step: the constructing
\* thread reaches its store, a worker thread goes on with its loop.  The
\* round of the for loop is named by its effect on the worker alone.
BatchQueueStep(w) == batchWorker_loop(w) \/ batchWorker_pop(w)

BatchProcessStep(w) ==
    /\ bworkers[w].pc = "run"
    /\ \E r \in BOOLEAN :
          bworkers' = [ bworkers EXCEPT
             ![w].batch[bworkers[w].i].allowed = r,
             ![w].batch[bworkers[w].i].processed = TRUE,
             ![w].i = bworkers[w].i + 1,
             ![w].pc = IF bworkers[w].i = Len(bworkers[w].batch) THEN "loop" ELSE "run" ]

BatchFairness ==
    /\ WF_batchVars(BatchPacketProcessor_ctor)
    /\ \A w \in BatchWorkers : WF_batchVars(BatchQueueStep(w))
    /\ \A w \in BatchWorkers : WF_bworkers(BatchProcessStep(w))

SpecBatchFair == SpecBatch /\ BatchFairness

(***************************************************************************)
(* The trackers, each with its threads inside record.                      *)
(***************************************************************************)
notLatency == <<engineVars, pipeVars, solo, lifeVars, api, batchVars, throughputVars, stepVars>>

NextLatency ==
    \/ \E t \in Recorders, ns \in Latencies : record_samples(t, ns) /\ UNCHANGED notLatency
    \/ \E t \in Recorders : record_total(t) /\ UNCHANGED notLatency
    \/ \E t \in Recorders : record_min_load(t) /\ UNCHANGED notLatency
    \/ \E t \in Recorders : record_min_cas(t) /\ UNCHANGED notLatency
    \/ \E t \in Recorders : record_max_load(t) /\ UNCHANGED notLatency
    \/ \E t \in Recorders : record_max_cas(t) /\ UNCHANGED notLatency
    \/ \E t \in Recorders : record_histogram(t) /\ UNCHANGED notLatency

SpecLatency == Init /\ [][NextLatency]_vars

notThroughput == <<engineVars, pipeVars, solo, lifeVars, api, batchVars, latencyVars, stepVars>>

NextThroughput ==
    \/ ClockAdvance /\ UNCHANGED notThroughput
    \/ \E t \in Counters, b \in ByteSizes : throughput_now(t, b) /\ UNCHANGED notThroughput
    \/ \E t \in Counters : throughput_load(t) /\ UNCHANGED notThroughput
    \/ \E t \in Counters : throughput_exchange(t) /\ UNCHANGED notThroughput
    \/ \E t \in Counters : throughput_reset_packets(t) /\ UNCHANGED notThroughput
    \/ \E t \in Counters : throughput_reset_bytes(t) /\ UNCHANGED notThroughput
    \/ \E t \in Counters : throughput_add_packets(t) /\ UNCHANGED notThroughput
    \/ \E t \in Counters : throughput_add_bytes(t) /\ UNCHANGED notThroughput

SpecThroughput == Init /\ [][NextThroughput]_vars

(***************************************************************************)
(* The block table administered while the clock advances and the cleanup   *)
(* thread of a started engine makes its rounds.                            *)
(***************************************************************************)
NextCleanup ==
    \/ start /\ UNCHANGED <<pipeVars, otherVars>>
    \/ \E a \in BlockInputs \cup WhitelistInputs :
          blockIP(a) /\ UNCHANGED <<pipeVars, otherVars>>
    \/ \E a \in BlockInputs \cup WhitelistInputs :
          unblockIP(a) /\ UNCHANGED <<pipeVars, otherVars>>
    \/ \E p \in PacketInputs :
          /\ stats_.packets_processed < MaxPackets
          /\ processPacket(p[1], JobSource, ClientPort, p[2])
          /\ UNCHANGED <<pipeVars, otherVars>>
    \/ Tick /\ UNCHANGED <<pipeVars, otherVars>>
    \/ cleanupLoop /\ UNCHANGED <<pipeVars, otherVars>>

SpecCleanup == Init /\ [][NextCleanup]_vars

(***************************************************************************)
(* The blocked-address cache under concurrent administrators: blockIP runs *)
(* one statement and one bit write at a time in each of two threads, next  *)
(* to unblockIP, addWhitelist, the hot path and the clock.                 *)
(***************************************************************************)
notAdders == <<pipeVars, solo, lifeVars, api, batchVars, latencyVars, throughputVars,
               callers, reader>>

BloomAdders == {1, 3}

NextBloom ==
    \/ \E t \in Adders, a \in BloomAdders : blockIP_record(t, a) /\ UNCHANGED notAdders
    \/ \E t \in Adders : add_bit(t) /\ UNCHANGED notAdders
    \/ \E a \in BloomAdders : unblockIP(a) /\ UNCHANGED <<pipeVars, otherVars>>
    \/ \E a \in WhitelistInputs : addWhitelist(a) /\ UNCHANGED <<pipeVars, otherVars>>
    \/ \E p \in PacketInputs :
          /\ stats_.packets_processed < MaxPackets
          /\ processPacket(p[1], JobSource, ClientPort, p[2])
          /\ UNCHANGED <<pipeVars, otherVars>>
    \/ Tick /\ UNCHANGED <<pipeVars, otherVars>>

SpecBloom == Init /\ [][NextBloom]_vars

(***************************************************************************)
(* The live counters with several threads inside processPacket.            *)
(***************************************************************************)
notCallers == <<pipeVars, solo, lifeVars, api, batchVars, latencyVars, throughputVars,
                adders, reader>>

NextCalls ==
    \/ \E t \in Callers, p \in PacketInputs, src \in Addrs :
          processPacket_enter(t, p[1], src, p[2]) /\ UNCHANGED notCallers
    \/ \E t \in Callers : processPacket_return(t) /\ UNCHANGED notCallers
    \/ \E a \in BlockInputs : blockIP(a) /\ UNCHANGED <<pipeVars, otherVars>>
    \/ Tick /\ UNCHANGED <<pipeVars, otherVars>>

SpecCalls == Init /\ [][NextCalls]_vars

(***************************************************************************)
(* LatencyTracker read while it is written: the recorder threads of        *)
(* SpecLatency next to one thread that calls getStats at any moment.       *)
(***************************************************************************)
notReader == <<engineVars, pipeVars, solo, lifeVars, api, batchVars, latencyVars,
               throughputVars, adders, callers>>

NextStats ==
    \/ NextLatency
    \/ getStats_samples /\ UNCHANGED notReader
    \/ getStats_min /\ UNCHANGED notReader
    \/ getStats_max /\ UNCHANGED notReader
    \/ getStats_total /\ UNCHANGED notReader

SpecStats == Init /\ [][NextStats]_vars

\* The scheduler runs the writer thread and the thread inside stop() again and
\* again, and the background threads notice running_ = false.  Nothing is
\* assumed about the callers of the engine.
LifeFairness ==
    /\ WF_logger_(writer_pop)
    /\ WF_logger_(writer_write)
    /\ WF_logger_(writer_exit)
    /\ WF_<<logger_, ctl>>(Logger_stop_exchange)
    /\ WF_<<logger_, ctl>>(Logger_stop_join)
    /\ WF_<<logger_, ctl>>(Logger_stop_flush)
    /\ WF_<<logger_, ctl>>(Logger_stop_close)
    /\ WF_lifeVars(stop_join_cleanup)
    /\ WF_lifeVars(stop_join_monitor)
    /\ WF_lifeVars(cleanupLoop_exit)
    /\ WF_lifeVars(monitorLoop_exit)

SpecLifeFair == InitLife /\ [][NextLife]_vars /\ LifeFairness

(***************************************************************************)
(* Properties of the decision engine, checked under Spec.                  *)
(***************************************************************************)
\* a step that is one call of processPacket; last' names its source
ProcessPacketStep == stats_'.packets_processed = stats_.packets_processed + 1

Paths == {"whitelist", "blocked", "ratecheck", "analysis"}

\* C1: every processPacket call, whichever of the four paths it takes, returns
\* one decision and increments exactly one of packets_allowed / packets_dropped
\* by exactly one: packets_allowed iff it returns allow, packets_dropped iff it
\* returns drop.
C1_ExactlyOneCounter ==
    [][ ProcessPacketStep =>
          /\ last'.op = "processPacket"
          /\ last'.path \in Paths
          /\ last'.result \in BOOLEAN
          /\ IF last'.result
             THEN /\ stats_'.packets_allowed = stats_.packets_allowed + 1
                  /\ stats_'.packets_dropped = stats_.packets_dropped
             ELSE /\ stats_'.packets_dropped = stats_.packets_dropped + 1
                  /\ stats_'.packets_allowed = stats_.packets_allowed ]_vars

\* a call dropped by the rate pre-check after calls that were allowed and
\* calls that were dropped on other paths
C1_Witness ==
    /\ last.op = "processPacket"
    /\ last.path = "ratecheck"
    /\ ~last.result
    /\ stats_.packets_allowed >= 1
    /\ stats_.packets_dropped >= 2

\* C2: while the table holds an active, non-expired block record for a source
\* that is not whitelisted, every processPacket call of that source returns drop.
C2_BlockedAlwaysDropped ==
    [][ ( /\ ProcessPacketStep
          /\ isBlocked(blocked_ips, last'.src, now)
          /\ last'.src \notin whitelist )
        => ~last'.result ]_vars

\* C3: a processPacket call of a source in the whitelist (configured or added
\* with addWhitelist) returns allow, raises no alert, creates no block record
\* and leaves threats_detected and the per-source state unchanged.
C3_WhitelistImmunity ==
    [][ (ProcessPacketStep /\ last'.src \in whitelist) =>
          /\ last'.result
          /\ last'.logged = <<>>
          /\ blocked_ips' = blocked_ips
          /\ stats_'.threats_detected = stats_.threats_detected
          /\ source_state' = source_state ]_vars

\* a source whitelisted at run time has sent more than dos_packet_threshold
\* packets at one instant, all allowed
C3_Witness ==
    /\ last.op = "processPacket"
    /\ last.src \in whitelist \ config_.whitelisted_ips
    /\ last.burst > config_.dos_packet_threshold
    /\ last.result
    /\ stats_.packets_dropped = 0
    /\ ~blocked_ips[last.src].present

\* C4: the processPacket call of a that directly follows unblockIP(a) is not
\* dropped by the block short-circuit; unless the whitelist fast path takes it,
\* it goes on to parsing (rate pre-check and analysis).
C4_AfterUnblock ==
    (last.op = "processPacket" /\ last.after_unblock) =>
        /\ last.path # "blocked"
        /\ ~WhitelistFastPath(whitelisted_ips_cache_, last.src) =>
              last.path \in {"ratecheck", "analysis"}

\* the source was blocked, unblocked, is still in the blocked bloom cache, and
\* its next packet was analysed and allowed
C4_Witness ==
    /\ last.op = "processPacket"
    /\ last.after_unblock
    /\ BloomContains(blocked_ips_cache_, last.src)
    /\ last.path = "analysis"
    /\ last.result

\* C5: with auto_block_enabled, once a non-whitelisted source has sent more than
\* dos_packet_threshold packets at one instant, it is in getBlockedIPs when the
\* call returns and that call, which follows the threshold, is dropped.
C5_FloodBlocks ==
    ( /\ last.op = "processPacket"
      /\ config_.auto_block_enabled
      /\ last.src \notin whitelist
      /\ last.burst > config_.dos_packet_threshold )
    => /\ last.src \in getBlockedIPs(blocked_ips, now)
       /\ ~last.result

\* C6: a record whose expiry instant has passed, still in the table and the
\* source still in the blocked bloom cache, has no effect: isBlocked is false and
\* processPacket is not dropped by the block short-circuit.
C6_Expiry ==
    [][ ( /\ ProcessPacketStep
          /\ blocked_ips[last'.src].present
          /\ now > blocked_ips[last'.src].expires_at )
        => /\ ~isBlocked(blocked_ips, last'.src, now)
           /\ last'.path # "blocked" ]_vars

\* a packet of a source whose expired record is still in the table, and which
\* is still in the blocked bloom cache, was analysed and allowed
C6_Witness ==
    /\ last.op = "processPacket"
    /\ blocked_ips[last.src].present
    /\ now > blocked_ips[last.src].expires_at
    /\ BloomContains(blocked_ips_cache_, last.src)
    /\ ~WhitelistFastPath(whitelisted_ips_cache_, last.src)
    /\ last.path = "analysis"
    /\ last.result

(***************************************************************************)
(* Properties of the queue and the worker pool, checked under SpecPipe.    *)
(***************************************************************************)
AllIdle == \A p \in Producers : producers[p].pc = "idle"

\* C7: as long as no dequeue has taken place, at most Capacity submitPacket
\* calls return true, a call returns false only when Capacity positions are
\* claimed, packets_queued counts the true returns and
\* packets_dropped_queue_full the false returns; once the calls have completed,
\* min(calls, Capacity) returned true and the two counters add up to the calls.
C7_QueueSaturation ==
    dequeue_pos_ = 0 =>
        /\ qlog.accepted <= Capacity
        /\ qlog.rejected > 0 => enqueue_pos_ = Capacity
        /\ pstats.packets_queued = qlog.accepted
        /\ pstats.packets_dropped_queue_full = qlog.rejected
        /\ AllIdle =>
              /\ qlog.accepted = Min(qlog.submitted, Capacity)
              /\ pstats.packets_queued + pstats.packets_dropped_queue_full
                    = qlog.submitted

\* more than Capacity calls have completed without a dequeue
C7_Witness ==
    /\ dequeue_pos_ = 0
    /\ AllIdle
    /\ qlog.submitted > Capacity
    /\ pstats.packets_queued = Capacity
    /\ pstats.packets_dropped_queue_full = qlog.submitted - Capacity

Claimed == { qlog.claimed[k] : k \in 1..Len(qlog.claimed) }

\* C8: under every interleaving of producers and consumers a job is handed out
\* by at most one dequeue, a dequeue hands out only a job that was enqueued, a
\* slot that holds a job changes only by that job being taken out, and the
\* queue never holds more than Capacity jobs.
C8_QueueSafety ==
    /\ [] ( /\ \A t1, t2 \in qlog.taken : t1[2] = t2[2] => t1 = t2
            /\ \A t \in qlog.taken : t[2] # NoJob /\ t[2] \in Claimed
            /\ enqueue_pos_ >= dequeue_pos_
            /\ enqueue_pos_ - dequeue_pos_ <= Capacity )
    /\ [][ \A i \in DOMAIN slots_ :
              (slots_[i].job # NoJob /\ slots_'[i].job # slots_[i].job) =>
                 /\ slots_'[i].job = NoJob
                 /\ \E t \in qlog.taken' : t[2] = slots_[i].job ]_vars

\* every job was accepted and taken out, the first slot having been used twice
C8_Witness ==
    /\ enqueue_pos_ = TotalJobs
    /\ Cardinality(qlog.taken) = TotalJobs
    /\ enqueue_pos_ > Capacity

\* C9: the job taken from position k is the job that claimed position k, so
\* the k-th job handed out is the k-th job accepted, and two jobs of one
\* producer are accepted and handed out in the order of their submission.
C9_Fifo ==
    /\ \A t \in qlog.taken :
          /\ t[1] < dequeue_pos_
          /\ t[1] + 1 <= Len(qlog.claimed)
          /\ qlog.claimed[t[1] + 1] = t[2]
    /\ \A k1, k2 \in 1..Len(qlog.claimed) :
          ( /\ Owner(qlog.claimed[k1]) = Owner(qlog.claimed[k2])
            /\ qlog.claimed[k1] < qlog.claimed[k2] ) => k1 < k2
    /\ \A t1, t2 \in qlog.taken :
          (Owner(t1[2]) = Owner(t2[2]) /\ t1[2] < t2[2]) => t1[1] < t2[1]

\* the two jobs of producer 1 were taken out with a job of another producer
\* between them
C9_Witness ==
    /\ Len(qlog.claimed) >= 3
    /\ Owner(qlog.claimed[1]) = 1
    /\ Owner(qlog.claimed[2]) # 1
    /\ Owner(qlog.claimed[3]) = 1
    /\ Cardinality(qlog.taken) >= 3

\* C10: once stop() has returned, every job whose submitPacket had returned
\* true when stop() was called has been processed by a worker.
C10_StopDrains ==
    (stopper.pc = "idle" /\ stopper.stopped) =>
        pstats.packets_processed >= stopper.queued_at_stop

\* C11: a job whose processed flag is set carries in its allowed flag what
\* processPacket returned for it, and the decision of every job that was
\* processed stays available in a PacketJob object.
C11_DecisionPublished ==
    /\ \A w \in Workers :
          (workers[w].processed /\ workers[w].job # NoJob) =>
             <<workers[w].job, workers[w].allowed>> \in qlog.decided
    /\ \A d \in qlog.decided :
          \E w \in Workers : /\ workers[w].job = d[1]
                             /\ workers[w].processed
                             /\ workers[w].allowed = d[2]

\* C12: after stop() has set running_ to false a worker that comes to the head
\* of its loop leaves instead of taking another job, and stop() returns with
\* every worker joined, whatever the producers do meanwhile.
C12_StopTerminates ==
    /\ [][ \A w \in Workers :
              (~prunning_ /\ workers[w].pc = "loop") => workers'[w].pc \in { "loop", "exit" }
         ]_vars
    /\ [](stopper.stopped => \A w \in Workers : workers[w].pc = "off")
    /\ (stopper.pc = "joining") ~> stopper.stopped

\* stop() has returned, a worker finished a job after running_ was cleared, and
\* a producer had a submission accepted during the shutdown
C12_Witness ==
    /\ stopper.stopped
    /\ pstats.packets_queued > stopper.queued_at_stop
    /\ pstats.packets_processed >= 1

\* C13: a submitPacket call that runs alone, whatever the other producers and
\* the workers were doing when they were paused, always has a next step of its
\* own and returns within SoloBound steps.
C13_SubmitNeverWaits ==
    solo.who # 0 =>
       /\ solo.steps < SoloBound
       /\ producers[solo.who].pc \in { "enq_seq", "enq_cas", "enq_move", "enq_store",
                                       "count_queued", "count_full" }
       /\ ENABLED SoloStep(solo.who)

\* the call is about to return false while a worker is paused between its
\* exchange on dequeue_pos_ and its sequence store
C13_Witness ==
    /\ solo.who # 0
    /\ producers[solo.who].pc = "count_full"
    /\ \E w \in Workers : workers[w].pc \in { "deq_move", "deq_store" }

(***************************************************************************)
(* Properties of construction, of start() and stop(), of the logger and of *)
(* the statistics snapshot.                                                *)
(***************************************************************************)
\* a step in which the controlling thread enters a call
CallStep == ctl'.calls = ctl.calls + 1

\* what a call finds already done: start on a running object, stop on one that
\* is not running
Redundant ==
    \/ ctl'.op = "start" /\ running_
    \/ ctl'.op = "stop" /\ ~running_
    \/ ctl'.op = "PacketProcessor::start" /\ prunning_
    \/ ctl'.op = "PacketProcessor::stop" /\ ~prunning_

\* C14: an engine built from an invalid configuration never processes a
\* packet, because its construction failed.
C14_InvalidConfigRejected == [][ ProcessPacketStep => isValid(config_) ]_vars

C16_Lifecycle ==
    /\ [][ running_' # running_ => CallStep /\ ctl'.op \in { "start", "stop" } ]_vars
    /\ [][ (bg.created > 0 /\ ~running_) => ~running_' ]_vars
    /\ [](running_ => /\ bg.cleanup = "run" /\ bg.monitor = "run"
                      /\ logger_.running /\ logger_.writer \in { "loop", "write" })

\* C17: while the engine is not running no counter, per-source state, block
\* record or bloom cache changes.
C17_OnlyWhileRunning ==
    [][ ~running_ => UNCHANGED <<stats_, source_state, blocked_ips,
                                 blocked_ips_cache_>> ]_vars

\* C18: a log call at or above min_level_ appends its record to the ring or,
\* if the ring is full, raises logs_dropped by one; a call below min_level_
\* changes nothing; neither depends on the writer.  The calls at or above
\* min_level_ are those in the ring, the one being written, logs_written and
\* logs_dropped.
C18_LogAccounting ==
    /\ [](logger_.calls = Len(logger_.ring) + logger_.logs_written + logger_.logs_dropped
                          + (IF logger_.writer = "write" THEN 1 ELSE 0))
    /\ [](logger_.attempts < MaxLogs =>
             ENABLED (\E level \in { DEBUG, INFO } : logger_' = log(logger_, level)))
    /\ [][ logger_'.attempts = logger_.attempts + 1 =>
             \/ /\ logger_'.calls = logger_.calls
                /\ logger_' = [ logger_ EXCEPT !.attempts = @ + 1 ]
             \/ /\ logger_'.calls = logger_.calls + 1
                /\ Len(logger_.ring) < LogCapacity
                /\ logger_' = [ logger_ EXCEPT !.attempts = @ + 1, !.calls = @ + 1,
                                               !.ring = Append(@, INFO) ]
             \/ /\ logger_'.calls = logger_.calls + 1
                /\ Len(logger_.ring) = LogCapacity
                /\ logger_' = [ logger_ EXCEPT !.attempts = @ + 1, !.calls = @ + 1,
                                               !.logs_dropped = @ + 1 ]
         ]_vars

\* a record was dropped on a full ring, a call below min_level_ was made and
\* the writer has written a record
C18_Witness ==
    /\ logger_.logs_dropped >= 1
    /\ logger_.attempts > logger_.calls
    /\ logger_.logs_written >= 1

\* C19: when stop() has returned, the records that were accepted before it was
\* called have been written to the open sink and counted in logs_written, and
\* the ring holds nothing that was accepted before the call.
C19_FlushedOnStop ==
    (ctl.pc = "idle" /\ ctl.op = "stop") =>
       /\ logger_.sunk >= ctl.at_call
       /\ logger_.logs_written >= ctl.at_call
       /\ Len(logger_.ring) <= Accepted(logger_) - ctl.at_call

\* C20: a snapshot that getSnapshot has returned satisfies
\* packets_processed >= packets_allowed + packets_dropped.
C20_SnapshotP2 ==
    snap.pc = "done" =>
       snap.packets_processed >= snap.packets_allowed + snap.packets_dropped

(***************************************************************************)
(* Properties of the whitelist, of parsing and of the threat loop.         *)
(***************************************************************************)
\* C21: the processPacket call that follows removeWhitelist(a), for source a
\* no longer in the whitelist, does not return on the whitelist short-circuit.
C21_AfterRemoveWhitelist ==
    [][ ( /\ ProcessPacketStep
          /\ last.op = "removeWhitelist"
          /\ last'.src = last.src
          /\ last.src \notin whitelist ) => last'.path # "whitelist" ]_vars

\* C22: a call of GridWatcherAPI::blockIP or unblockIP with a text that is not
\* a dotted quad (an octet above 255 included) returns the failure value and
\* leaves the block table and the blocked bloom cache unchanged.
C22_InvalidTextRejected ==
    [][ ( api'.calls = api.calls + 1 /\ ~isDottedQuad(api'.text) )
           => ( /\ api'.result = "error"
                /\ UNCHANGED <<blocked_ips, blocked_ips_cache_>> ) ]_vars

\* C23: at the parse step of processPacket the Modbus parser is applied exactly
\* to the packets whose source or destination port is in config_.monitored_ports,
\* and a packet with both ports outside it passes through: no alert, no new
\* block record, and the packet is allowed.
C23_MonitoredPorts ==
    [][ \A p \in PortInputs :
          ( /\ processPacket(p[1], JobSource, ClientPort, p[2])
            /\ last'.path \in {"ratecheck", "analysis"} )
          => LET monitored == p[2] \in config_.monitored_ports
                              \/ ClientPort \in config_.monitored_ports
                 meta == buildPacketMetadata(p[1], JobSource, ClientPort, p[2])
             IN /\ monitored => meta.protocol = "MODBUS_TCP"
                /\ ~monitored => /\ meta.protocol = "UNKNOWN"
                                 /\ last'.logged = <<>>
                                 /\ blocked_ips' = blocked_ips
                                 /\ last'.result ]_vars

\* C24: for a packet that reaches analysis the decision follows the highest
\* alert severity: HIGH or above with auto_block_enabled gives the source a block
\* record and a place in the blocked cache and drops the packet; MEDIUM as the
\* highest drops the packet and creates no block record; below MEDIUM, or no
\* alert, allows the packet and creates no block record.
C24_HighestSeverity ==
    [][ \A p \in ThreatInputs :
          ( /\ processPacket(p[1], JobSource, ClientPort, p[2])
            /\ last'.path = "analysis" )
          => LET top == Highest(ThreatsOf(p)) IN
             /\ (top >= SeverityRank("HIGH") /\ config_.auto_block_enabled)
                   => /\ blocked_ips'[JobSource].present
                      /\ BloomContains(blocked_ips_cache_', JobSource)
                      /\ ~last'.result
             /\ top = SeverityRank("MEDIUM")
                   => ~last'.result /\ blocked_ips' = blocked_ips
             /\ top < SeverityRank("MEDIUM")
                   => /\ last'.result
                      /\ blocked_ips' = blocked_ips
                      /\ blocked_ips_cache_' = blocked_ips_cache_ ]_vars

\* A packet whose highest alert is MEDIUM was dropped and its source not blocked
\* although auto_block_enabled is set.
C24_Witness ==
    /\ last.op = "processPacket" /\ last.path = "analysis"
    /\ last.logged = << "ABNORMAL_TRAFFIC_PATTERN" >>
    /\ ~last.result
    /\ config_.auto_block_enabled
    /\ ~blocked_ips[JobSource].present

\* the jobs of batch k handed to processPacket so far, as positions of blog
HandledOf(k) == { i \in 1..Len(blog) : blog[i].batch = k }

\* C25: submitBatch accepts at most BatchSize jobs and enqueues nothing of a
\* larger vector; the jobs of a batch are handed to processPacket by one
\* worker, in their order and each once; and every accepted batch is processed
\* in full, unless the processor is destroyed first.
C25_BatchProcessed ==
    /\ [] ( /\ \A a \in bctl.accepted : a[2] <= BatchSize
            /\ (bctl.submitted > 0 /\ bctl.size > BatchSize) => ~bctl.ret
            /\ \A i \in 1..Len(blog) :
                  /\ <<blog[i].batch, blog[i].idx>> \in
                        { <<a[1], x>> : a \in bctl.accepted, x \in 1..BatchSize }
                  /\ blog[i].idx = Cardinality({ j \in HandledOf(blog[i].batch) : j <= i })
                  /\ \A j \in HandledOf(blog[i].batch) : blog[j].worker = blog[i].worker )
    /\ \A k \in 1..MaxBatches, n \in 0..BatchSize :
          ( <<k, n>> \in bctl.accepted )
             ~> ( Cardinality(HandledOf(k)) = n \/ bctl.pc \in {"join", "gone"} )

\* C26: processPacket returns on the whitelist short-circuit only for a source
\* that is in the authoritative whitelist; a source the bloom cache reports by
\* collision goes on to the block check and the analysis.
C26_ShortCircuitVerified ==
    [][ ( ProcessPacketStep /\ last'.path = "whitelist" )
           => last'.src \in whitelist ]_vars

\* The rule order of 4.E.
RuleOrder ==
    << "MALFORMED_PACKET", "DOS_FLOOD", "PORT_SCAN", "UNAUTHORIZED_WRITE",
       "ABNORMAL_TRAFFIC_PATTERN", "SUSPICIOUS_FUNCTION_CODE" >>

RuleIndex(kind) == CHOOSE k \in 1..Len(RuleOrder) : RuleOrder[k] = kind

C28_MalformedInBand ==
    [][ processPacket(ShortPkt, JobSource, ClientPort, ModbusPort)
          => /\ last'.path # "blocked"
                  => /\ buildPacketMetadata(ShortPkt, JobSource, ClientPort,
                                            ModbusPort).is_malformed
                     /\ last'.path \in {"ratecheck", "analysis"}
                     /\ last'.path = "analysis"
                           => /\ Len(last'.logged) >= 1
                              /\ last'.logged[1] = "MALFORMED_PACKET"
             /\ last'.result \in BOOLEAN
             /\ IF last'.result
                THEN /\ stats_'.packets_allowed = stats_.packets_allowed + 1
                     /\ stats_'.packets_dropped = stats_.packets_dropped
                ELSE /\ stats_'.packets_dropped = stats_.packets_dropped + 1
                     /\ stats_'.packets_allowed = stats_.packets_allowed ]_vars

\* A malformed packet was analysed and, auto-block being off, only dropped.
C28_Witness ==
    /\ last.op = "processPacket" /\ last.path = "analysis"
    /\ Len(last.logged) >= 1 /\ last.logged[1] = "MALFORMED_PACKET"
    /\ ~last.result
    /\ ~config_.auto_block_enabled
    /\ stats_.packets_dropped >= 1

\* the completed record calls: <<thread, position in its list>>
Samples == { <<t, i>> \in Recorders \X (1..MaxRecords) : i <= Len(recorders[t].done) }

SampleValue(s) == recorders[s[1]].done[s[2]]

RECURSIVE SumOf(_)
SumOf(S) == IF S = {} THEN 0
            ELSE LET s == CHOOSE x \in S : TRUE IN SampleValue(s) + SumOf(S \ {s})

\* C29: when no record call is running and at least one has completed, getStats
\* reports the number of calls, their total (as the average), the smallest and
\* the largest recorded value, and every histogram bucket holds the number of
\* samples that fall into it.
C29_LatencyStats ==
    ( /\ \A t \in Recorders : recorders[t].pc = "idle"
      /\ Samples # {} )
    => /\ getStats.samples = Cardinality(Samples)
       /\ getStats.avg_ns = << SumOf(Samples), Cardinality(Samples) >>
       /\ \E s \in Samples : getStats.min_ns = SampleValue(s)
       /\ \A s \in Samples : getStats.min_ns <= SampleValue(s)
       /\ \E s \in Samples : getStats.max_ns = SampleValue(s)
       /\ \A s \in Samples : getStats.max_ns >= SampleValue(s)
       /\ \A b \in 0..(HISTOGRAM_SIZE - 1) :
             latency_.histogram_[b]
                = Cardinality({ s \in Samples : Bucket(SampleValue(s)) = b })

\* Both threads have completed all their calls, with values in three buckets.
C29_Witness ==
    /\ \A t \in Recorders : recorders[t].pc = "idle" /\ Len(recorders[t].done) = MaxRecords
    /\ getStats.min_ns = 0
    /\ getStats.max_ns = 20
    /\ latency_.histogram_[Bucket(5)] >= 1
    /\ recorders[1].done # recorders[2].done

\* the completed calls of the current second: <<thread, position in its list>>
CountedNow ==
    { <<t, i>> \in Counters \X (1..MaxCounts) :
         i <= Len(counters[t].done) /\ counters[t].done[i].sec = clock_sec }

RECURSIVE BytesOf(_)
BytesOf(S) == IF S = {} THEN 0
              ELSE LET s == CHOOSE x \in S : TRUE
                   IN counters[s[1]].done[s[2]].bytes + BytesOf(S \ {s})

\* C30: when no record call is running and calls were made in the current
\* second, the slot holds the number of those calls and the sum of their bytes.
C30_SlotExact ==
    ( /\ \A t \in Counters : counters[t].pc = "idle"
      /\ CountedNow # {} )
    => /\ windows_.timestamp_sec = clock_sec
       /\ windows_.packets = Cardinality(CountedNow)
       /\ windows_.bytes = BytesOf(CountedNow)

(***************************************************************************)
(* Properties of the caches, of the counters and of the queues.            *)
(***************************************************************************)
\* C31: a round of the cleanup thread leaves the blocked bloom cache rebuilt
\* from the block table: every address still blocked is reported, and an
\* address without a record is reported only if the rebuilt filter reports it.
C31_CacheRebuilt ==
    [][ cleanupLoop =>
          \A a \in Addrs :
             /\ a \in Present(blocked_ips') => BloomContains(blocked_ips_cache_', a)
             /\ a \notin Present(blocked_ips')
                  => ( BloomContains(blocked_ips_cache_', a)
                         => BloomContains(BloomAddAll({}, Present(blocked_ips')), a) ) ]_vars

\* C32: the active_blocks counter equals the number of active block records,
\* and total_blocks counts the blocks created: it is at least active_blocks and
\* is positive once a record exists.
C32_BlockCounters ==
    /\ stats_.active_blocks = Cardinality(getBlockedIPs(blocked_ips, now))
    /\ stats_.total_blocks >= stats_.active_blocks
    /\ Present(blocked_ips) # {} => stats_.total_blocks >= 1

\* C33: the bloom caches never lose an element and never hide a block.  No
\* step clears a bit of either cache; every address whose add has returned is
\* reported by the blocked cache in every later state, also while another
\* thread is inside an add; and whenever no blockIP call is between its two
\* statements, every address with a block record is reported by the cache.
C33_CacheKeeps ==
    /\ [][ /\ blocked_ips_cache_ \subseteq blocked_ips_cache_'
           /\ whitelisted_ips_cache_ \subseteq whitelisted_ips_cache_' ]_vars
    /\ [](\A t \in Adders : \A x \in adders[t].done :
             BloomContains(blocked_ips_cache_, x))
    /\ []( (\A t \in Adders : adders[t].pc = "idle")
             => \A a \in Present(blocked_ips) : BloomContains(blocked_ips_cache_, a) )

\* two threads have each returned from blockIP of a different address, and
\* both addresses have a record and are reported by the cache
C33_Witness ==
    /\ \A t \in Adders : adders[t].pc = "idle" /\ adders[t].done # {}
    /\ adders[1].done # adders[2].done
    /\ Cardinality(Present(blocked_ips)) = 2
    /\ \A a \in Present(blocked_ips) : BloomContains(blocked_ips_cache_, a)

\* the threads between the entry statement of processPacket and its return
InProgress == { t \in Callers : callers[t].pc = "inside" }

\* C34: in every state of the live counters, packets_processed is
\* packets_allowed + packets_dropped plus the number of processPacket calls
\* in progress; so it is never smaller than the sum, and equal to it when no
\* call is in progress.
C34_CountersBalance ==
    /\ stats_.packets_processed
          = stats_.packets_allowed + stats_.packets_dropped + Cardinality(InProgress)
    /\ stats_.packets_processed >= stats_.packets_allowed + stats_.packets_dropped
    /\ InProgress = {}
          => stats_.packets_processed = stats_.packets_allowed + stats_.packets_dropped

\* two calls are in progress after one packet was allowed and one dropped
C34_Witness ==
    /\ Cardinality(InProgress) = 2
    /\ stats_.packets_allowed >= 1
    /\ stats_.packets_dropped >= 1

\* the jobs whose enqueue has returned true
Enqueued ==
    { j \in Claimed : ~( /\ producers[Owner(j)].job = j
                         /\ producers[Owner(j)].pc \in {"enq_move", "enq_store"} ) }

\* the jobs at a position no dequeue has claimed yet
Waiting == { qlog.claimed[k] : k \in { i \in 1..Len(qlog.claimed) : i - 1 >= dequeue_pos_ } }

\* C35: dequeue returns false only when the queue is empty.  Whenever a
\* dequeue call reports empty (its diff is negative and the worker goes back
\* to its loop), no job whose enqueue has returned true is still waiting to
\* be dequeued, also while a producer that claimed an earlier position has
\* not yet published its slot.
C35_EmptyOnlyWhenEmpty ==
    [][ \A w \in Workers :
           (workers[w].pc = "deq_seq" /\ workers'[w].pc = "loop")
              => Enqueued \cap Waiting = {} ]_vars

\* C36: enqueue returns false only when the queue holds Capacity jobs that
\* have not been dequeued.  Whenever an enqueue call reports full (its diff
\* is negative), enqueue position - dequeue position is Capacity, also while
\* a consumer that claimed a slot has not yet released it.
C36_FullOnlyWhenFull ==
    [][ \A p \in Producers :
           (producers[p].pc = "enq_seq" /\ producers'[p].pc = "count_full")
              => enqueue_pos_ - dequeue_pos_ >= Capacity ]_vars

\* C37: in every reachable state of the processor, under every interleaving
\* of producers and workers, packets_processed is at most packets_queued.
C37_ProcessedAtMostQueued == pstats.packets_processed <= pstats.packets_queued

\* C38: once the constructor of BatchPacketProcessor has returned and until
\* the destructor begins, every batch worker is alive: none has left its
\* polling loop.
C38_WorkersAlive ==
    bctl.pc = "live" => \A w \in BatchWorkers : bworkers[w].pc # "exit"

\* the values handed to record so far, by calls that returned or are running
Recorded ==
    { SampleValue(s) : s \in Samples } \cup
    { recorders[t].ns : t \in { r \in Recorders : recorders[r].pc # "idle" } }

\* C39: every result of getStats with samples > 0, also of a call that ran
\* while record calls were running, has min_ns <= max_ns, and both are
\* values that were recorded, never the initial UINT64_MAX or 0 of a sample
\* whose record call has not yet reached them.
C39_StatsOrdered ==
    (reader.pc = "done" /\ reader.samples > 0)
       => /\ reader.min_ns <= reader.max_ns
          /\ reader.min_ns \in Recorded
          /\ reader.max_ns \in Recorded

\* C40: under fair scheduling every record accepted into the log ring is
\* eventually written to the open sink: the ring is first-in first-out, so
\* the n-th accepted record is the n-th written, whenever it was logged.
\* (A record that is not accepted is counted in logs_dropped by the call.)
C40_AcceptedIsWritten ==
    \A n \in 1..MaxLogs : (Accepted(logger_) >= n) ~> (logger_.sunk >= n)

====
